---------------------------- MODULE Spec2Model ----------------------------
(***************************************************************************)
(* A model of SLATE's LU factorization without pivoting, getrf_nopiv       *)
(* (src/src/getrf_nopiv.cc): the entry points that resolve the options,    *)
(* the OpenMP task graph the two drivers submit, the execution of that     *)
(* graph by a team of threads in every MPI process, and the broadcasts     *)
(* that carry tiles between the processes.                                 *)
(*                                                                         *)
(* Tiles hold one element (mb = nb = 1) of the field of integers modulo a  *)
(* prime, so that the arithmetic of the kernels is exact.                  *)
(***************************************************************************)
EXTENDS Integers, Sequences, FiniteSets, TLC

---------------------------------------------------------------------------
(* Bounds of the model.                                                    *)

\* the matrix has at most MaxMt x MaxNt tiles
MaxMt == 3
MaxNt == 5
\* the largest value of Option::Lookahead a call passes
MaxLookahead == 2
\* the number of input matrices per shape
MaxInput == 2
\* calls that vary the options other than the lookahead factor at most
\* SweepTiles x SweepTiles tiles
SweepTiles == 2
\* calls run on several processes: the number of processes, the shape and
\* the lookahead
GridProcs == 2
GridMt == 3
GridNt == 3
GridLookahead == 1
\* the submission of the tasks is examined on grids of up to
\* MaxGrid x MaxGrid processes
MaxGrid == 2
\* omp_get_max_threads() is at most MaxThreads
MaxThreads == 4
\* a caller makes at most MaxCalls calls of the compatibility entry points
MaxCalls == 2
\* the tiles passed to tpmqrt have 1 .. MaxTileDim rows and columns
MaxTileDim == 2

---------------------------------------------------------------------------
(* Scalars: the integers modulo 5, and a code for the result of a division *)
(* by zero (inf or nan, which every later operation propagates).           *)

Scalars == 0 .. 4
Modulus == Cardinality(Scalars)
NaN == 0 - 1
\* a tile this process holds no copy of
NoTile == 0 - 2

Min(a, b) == IF a < b THEN a ELSE b
Max(a, b) == IF a < b THEN b ELSE a

IsNum(x) == x \in Scalars

Inverse(x) == CHOOSE y \in Scalars : (x * y) % Modulus = 1

FSub(x, y) == IF IsNum(x) /\ IsNum(y) THEN (x - y + Modulus) % Modulus ELSE NaN
FMul(x, y) == IF IsNum(x) /\ IsNum(y) THEN (x * y) % Modulus ELSE NaN
FDiv(x, y) == IF IsNum(x) /\ IsNum(y) /\ y # 0 THEN (x * Inverse(y)) % Modulus
             ELSE NaN

---------------------------------------------------------------------------
(* The call: a matrix of mt x nt tiles distributed over a p x q grid of    *)
(* processes, and the option map.  Every process makes the same call.      *)

VARIABLES
    mt, nt,             \* A.mt(), A.nt()
    p, q,               \* the process grid
    A0,                 \* the matrix on entry
    opts,               \* the option map of the call
    omp_max_threads,    \* omp_get_max_threads(), the size of the team
    pc,                 \* per process: where its master thread is
    args,               \* per process: the resolved target and options
    tasks,              \* per process: the tasks submitted so far
    status,             \* per process: the state of each submitted task
    waits,              \* per process: the tasks each submitted task waits for
    val,                \* per process: the content of the tiles it holds
    log,                \* per process: the kernels applied to each tile
    sent,               \* per process: <<tile, destination>> sends completed
    rcvd,               \* per process: tiles received
    msgs,               \* the messages delivered so far
    num_blas_threads,   \* the BLAS thread count of the process
    mpi_initialized,    \* MPI_Initialized()
    shim,               \* the call of a compatibility entry point in progress
    tp                  \* a call of the tile routine tpmqrt

vars == <<mt, nt, p, q, A0, opts, omp_max_threads, pc, args, tasks, status,
          waits, val, log, sent, rcvd, msgs, num_blas_threads,
          mpi_initialized, shim, tp>>

call == <<mt, nt, p, q, A0, opts, omp_max_threads>>

\* what getrf_nopiv never touches: the process outside the call
env == <<num_blas_threads, mpi_initialized, shim, tp>>

\* the state of a getrf_nopiv call
lu == <<pc, args, tasks, status, waits, val, log, sent, rcvd, msgs>>

Procs == 0 .. (p * q - 1)
Tiles == (0 .. mt - 1) \X (0 .. nt - 1)

\* Tile (i, j) belongs to process (i mod p, j mod q) of the column-major
\* grid.
tileRank(x) == (x[1] % p) + (x[2] % q) * p
tileIsLocal(x, r) == tileRank(x) = r

\* A.sub(i1, i2, j1, j2): the tiles of rows i1..i2 and columns j1..j2
sub(i1, i2, j1, j2) == (i1 .. i2) \X (j1 .. j2)

---------------------------------------------------------------------------
(* Options.  A key of the map holds <<value>>, or <<>> when it is absent   *)
(* (opts.at(key) then throws std::out_of_range).                           *)

OptionKeys ==
    {"Lookahead", "InnerBlocking", "MaxPanelThreads", "Target", "BlockSize"}

Has(o, key) == o[key] # <<>>
At(o, key) == o[key][1]

\* getrf_nopiv(A, opts): the target the call names
TargetOf(o) == IF Has(o, "Target") THEN At(o, "Target") ELSE "HostTask"

\* the switch over the target: the instantiation called, "none" when no
\* case matches
Dispatch(tgt) ==
    CASE tgt \in {"Host", "HostTask"} -> "HostTask"
      [] tgt = "HostNest" -> "HostNest"
      [] tgt = "HostBatch" -> "HostBatch"
      [] tgt = "Devices" -> "Devices"
      [] OTHER -> "none"

\* the lookahead with the default 0
LookaheadDefaultZero(o) == IF Has(o, "Lookahead") THEN At(o, "Lookahead") ELSE 0

\* getrf_nopiv<target>(A, opts): each option, and the assert on it
LookaheadOf(o) == IF Has(o, "Lookahead") THEN At(o, "Lookahead") ELSE 1
LookaheadAssert(o) == Has(o, "Lookahead") => At(o, "Lookahead") >= 0

InnerBlockingOf(o) ==
    IF Has(o, "InnerBlocking") THEN At(o, "InnerBlocking") ELSE 16
InnerBlockingAssert(o) ==
    Has(o, "InnerBlocking") => At(o, "InnerBlocking") >= 0

MaxPanelThreadsOf(o, nthr) ==
    IF Has(o, "MaxPanelThreads") THEN At(o, "MaxPanelThreads")
    ELSE Max(nthr \div 2, 1)
MaxPanelThreadsAssert(o, nthr) ==
    Has(o, "MaxPanelThreads") =>
        (At(o, "MaxPanelThreads") >= 1 /\ At(o, "MaxPanelThreads") <= nthr)

---------------------------------------------------------------------------
(* Tasks.  A task carries its depend clauses (din: in, dout: out and       *)
(* inout), its priority clause, the kernel of its body (op) with the       *)
(* target and batch array index (queue) it is called with, the tiles the   *)
(* kernel reads and writes, and the broadcasts of its body: the tile       *)
(* sent, the view it is sent to, and the tag.                              *)

column(i) == <<"column", i>>
diag(i) == <<"diag", i>>
mpi_bandwidth == <<"mpi_bandwidth", 0>>

NoQueue == 0 - 1

---------------------------------------------------------------------------
(* Variants of the definitions below, each with one plausible slip.       *)

\* the trailing gemm without depend(inout:column[A_nt-1])
TrailingGemmFirstColumnOnly(target, A_mt, A_nt, lookahead, k) ==
    [kind |-> "trailingGemm", k |-> k, j |-> k+1+lookahead,
     din |-> {<<"column", k>>},
     dout |-> {<<"column", k+1+lookahead>>}, priority |-> 0,
     op |-> "gemm", target |-> target, queue |-> 0 - 1, args |-> <<>>,
     reads |-> sub(k+1, A_mt-1, k, k) \cup sub(k, k, k+1+lookahead, A_nt-1),
     writes |-> sub(k+1, A_mt-1, k+1+lookahead, A_nt-1),
     bcasts |-> {}]

\* the trailing gemm without depend(inout:column[k+1+lookahead])
TrailingGemmLastColumnOnly(target, A_mt, A_nt, lookahead, k) ==
    [kind |-> "trailingGemm", k |-> k, j |-> k+1+lookahead,
     din |-> {<<"column", k>>},
     dout |-> {<<"column", A_nt-1>>}, priority |-> 0,
     op |-> "gemm", target |-> target, queue |-> 0 - 1, args |-> <<>>,
     reads |-> sub(k+1, A_mt-1, k, k) \cup sub(k, k, k+1+lookahead, A_nt-1),
     writes |-> sub(k+1, A_mt-1, k+1+lookahead, A_nt-1),
     bcasts |-> {}]

\* the trsm-right over the rows from k, A.sub(k, A_mt-1, k, k)
TrsmRightFromRowK(A_mt, A_nt, k) ==
    [kind |-> "trsmRight", k |-> k, j |-> k,
     din |-> {<<"diag", k>>}, dout |-> {<<"column", k>>}, priority |-> 1,
     op |-> "trsmRight", target |-> "HostTask", queue |-> 0 - 1, args |-> <<>>,
     reads |-> sub(k, k, k, k), writes |-> sub(k, A_mt-1, k, k),
     bcasts |-> {}]

\* the trailing broadcast with tag j, without the offset A_mt
TrailingBcastTagJ(A_mt, A_nt, lookahead, k) ==
    [kind |-> "trailingBcast", k |-> k, j |-> k+1+lookahead,
     din |-> {},
     dout |-> {<<"column", k+1+lookahead>>, <<"column", A_nt-1>>,
               <<"mpi_bandwidth", 0>>},
     priority |-> 0,
     op |-> "none", target |-> "none", queue |-> 0 - 1, args |-> <<>>,
     reads |-> {}, writes |-> {},
     bcasts |-> {[src |-> <<k, j>>, dst |-> sub(k+1, A_mt-1, j, j),
                  tag |-> j]
                 : j \in k+1+lookahead .. A_nt-1}]

\* the lookahead gemm without its priority clause
LookaheadGemmNormalPriority(A_mt, A_nt, k, j) ==
    [kind |-> "lookaheadGemm", k |-> k, j |-> j,
     din |-> {<<"column", k>>}, dout |-> {<<"column", j>>}, priority |-> 0,
     op |-> "gemm", target |-> "HostTask", queue |-> 0 - 1, args |-> <<>>,
     reads |-> sub(k+1, A_mt-1, k, k) \cup sub(k, k, j, j),
     writes |-> sub(k+1, A_mt-1, j, j),
     bcasts |-> {}]

\* the panel-row broadcast with depend(in:column[k]) and no token written
PanelBcastReadsColumn(A_mt, A_nt, k) ==
    [kind |-> "panelBcast", k |-> k, j |-> k,
     din |-> {<<"column", k>>}, dout |-> {}, priority |-> 1,
     op |-> "none", target |-> "none", queue |-> 0 - 1, args |-> <<>>,
     reads |-> {}, writes |-> {},
     bcasts |-> {[src |-> <<i, k>>, dst |-> sub(i, i, k+1, A_nt-1), tag |-> i]
                 : i \in k+1 .. A_mt-1}]

\* the trailing broadcast without depend(inout:mpi_bandwidth)
TrailingBcastNoBandwidth(A_mt, A_nt, lookahead, k) ==
    [kind |-> "trailingBcast", k |-> k, j |-> k+1+lookahead,
     din |-> {},
     dout |-> {<<"column", k+1+lookahead>>, <<"column", A_nt-1>>},
     priority |-> 0,
     op |-> "none", target |-> "none", queue |-> 0 - 1, args |-> <<>>,
     reads |-> {}, writes |-> {},
     bcasts |-> {[src |-> <<k, j>>, dst |-> sub(k+1, A_mt-1, j, j),
                  tag |-> j + A_mt]
                 : j \in k+1+lookahead .. A_nt-1}]

\* the trailing gemm as internal::gemm<Target::HostTask>
TrailingGemmHostTask(target, A_mt, A_nt, lookahead, k) ==
    [kind |-> "trailingGemm", k |-> k, j |-> k+1+lookahead,
     din |-> {<<"column", k>>},
     dout |-> {<<"column", k+1+lookahead>>, <<"column", A_nt-1>>},
     priority |-> 0,
     op |-> "gemm", target |-> "HostTask", queue |-> 0 - 1, args |-> <<>>,
     reads |-> sub(k+1, A_mt-1, k, k) \cup sub(k, k, k+1+lookahead, A_nt-1),
     writes |-> sub(k+1, A_mt-1, k+1+lookahead, A_nt-1),
     bcasts |-> {}]

\* the panel-row broadcast with the tag of the iteration, const tag = k
PanelBcastTagK(A_mt, A_nt, k) ==
    [kind |-> "panelBcast", k |-> k, j |-> k,
     din |-> {}, dout |-> {<<"column", k>>, <<"mpi_bandwidth", 0>>},
     priority |-> 1,
     op |-> "none", target |-> "none", queue |-> 0 - 1, args |-> <<>>,
     reads |-> {}, writes |-> {},
     bcasts |-> {[src |-> <<i, k>>, dst |-> sub(i, i, k+1, A_nt-1), tag |-> k]
                 : i \in k+1 .. A_mt-1}]

\* the lookahead trsm with depend(in:diag[k]) depend(in:column[k])
LookaheadTrsmAfterColumnK(A_mt, A_nt, k, j) ==
    [kind |-> "lookaheadTrsm", k |-> k, j |-> j,
     din |-> {<<"diag", k>>, <<"column", k>>}, dout |-> {<<"column", j>>},
     priority |-> 1,
     op |-> "trsmLeft", target |-> "HostTask", queue |-> 0 - 1, args |-> <<>>,
     reads |-> sub(k, k, k, k), writes |-> sub(k, k, j, j),
     bcasts |-> {[src |-> <<k, j>>, dst |-> sub(k+1, A_mt-1, j, j),
                  tag |-> j]}]

\* the lookahead gemm over the rows from k, A.sub(k, A_mt-1, j, j)
LookaheadGemmFromRowK(A_mt, A_nt, k, j) ==
    [kind |-> "lookaheadGemm", k |-> k, j |-> j,
     din |-> {<<"column", k>>}, dout |-> {<<"column", j>>}, priority |-> 1,
     op |-> "gemm", target |-> "HostTask", queue |-> 0 - 1, args |-> <<>>,
     reads |-> sub(k, A_mt-1, k, k) \cup sub(k, k, j, j),
     writes |-> sub(k, A_mt-1, j, j),
     bcasts |-> {}]

\* the lookahead gemm without depend(in:column[k])
LookaheadGemmNoColumnK(A_mt, A_nt, k, j) ==
    [kind |-> "lookaheadGemm", k |-> k, j |-> j,
     din |-> {}, dout |-> {<<"column", j>>}, priority |-> 1,
     op |-> "gemm", target |-> "HostTask", queue |-> 0 - 1, args |-> <<>>,
     reads |-> sub(k+1, A_mt-1, k, k) \cup sub(k, k, j, j),
     writes |-> sub(k+1, A_mt-1, j, j),
     bcasts |-> {}]

\* the lookahead loop with j <= k+1+lookahead
LookaheadColumnsInclusive(A_nt, lookahead, k) ==
    k+1 .. Min(k+1+lookahead, A_nt-1)

---------------------------------------------------------------------------
(* The tasks of the generic driver.                                        *)

\* generic driver, iteration k: factor A(k, k) and broadcast it
GenericPanel(A_mt, A_nt, ib, k) ==
    [kind |-> "panel", k |-> k, j |-> k,
     din |-> {}, dout |-> {column(k), diag(k)}, priority |-> 1,
     op |-> "getrf", target |-> "HostTask", queue |-> NoQueue, args |-> <<ib>>,
     reads |-> {}, writes |-> sub(k, k, k, k),
     bcasts |-> {[src |-> <<k, k>>,
                  dst |-> sub(k+1, A_mt-1, k, k) \cup sub(k, k, k+1, A_nt-1),
                  tag |-> k]}]

\* A(k+1:mt-1, k) <- A(k+1:mt-1, k) U(k, k)^{-1}
GenericTrsmRight(A_mt, A_nt, k) ==
    [kind |-> "trsmRight", k |-> k, j |-> k,
     din |-> {diag(k)}, dout |-> {column(k)}, priority |-> 1,
     op |-> "trsmRight", target |-> "HostTask", queue |-> NoQueue, args |-> <<>>,
     reads |-> sub(k, k, k, k), writes |-> sub(k+1, A_mt-1, k, k),
     bcasts |-> {}]

\* send A(i, k) across row A(i, k+1:nt-1), tag i
GenericPanelBcast(A_mt, A_nt, k) ==
    [kind |-> "panelBcast", k |-> k, j |-> k,
     din |-> {}, dout |-> {column(k), mpi_bandwidth}, priority |-> 1,
     op |-> "none", target |-> "none", queue |-> NoQueue, args |-> <<>>,
     reads |-> {}, writes |-> {},
     bcasts |-> {[src |-> <<i, k>>, dst |-> sub(i, i, k+1, A_nt-1), tag |-> i]
                 : i \in k+1 .. A_mt-1}]

\* lookahead column j: solve A(k, k) A(k, j) = A(k, j), send A(k, j) down
\* column A(k+1:mt-1, j), tag j
GenericLookaheadTrsm(A_mt, A_nt, k, j) ==
    [kind |-> "lookaheadTrsm", k |-> k, j |-> j,
     din |-> {diag(k)}, dout |-> {column(j)}, priority |-> 1,
     op |-> "trsmLeft", target |-> "HostTask", queue |-> NoQueue, args |-> <<>>,
     reads |-> sub(k, k, k, k), writes |-> sub(k, k, j, j),
     bcasts |-> {[src |-> <<k, j>>, dst |-> sub(k+1, A_mt-1, j, j),
                  tag |-> j]}]

\* A(k+1:mt-1, j) -= A(k+1:mt-1, k) * A(k, j)
GenericLookaheadGemm(A_mt, A_nt, k, j) ==
    [kind |-> "lookaheadGemm", k |-> k, j |-> j,
     din |-> {column(k)}, dout |-> {column(j)}, priority |-> 1,
     op |-> "gemm", target |-> "HostTask", queue |-> NoQueue, args |-> <<>>,
     reads |-> sub(k+1, A_mt-1, k, k) \cup sub(k, k, j, j),
     writes |-> sub(k+1, A_mt-1, j, j),
     bcasts |-> {}]

\* solve A(k, k) A(k, kl+1:nt-1) = A(k, kl+1:nt-1)
GenericTrailingTrsm(A_mt, A_nt, lookahead, k) ==
    [kind |-> "trailingTrsm", k |-> k, j |-> k+1+lookahead,
     din |-> {diag(k)},
     dout |-> {column(k+1+lookahead), column(A_nt-1)}, priority |-> 0,
     op |-> "trsmLeft", target |-> "HostTask", queue |-> NoQueue, args |-> <<>>,
     reads |-> sub(k, k, k, k), writes |-> sub(k, k, k+1+lookahead, A_nt-1),
     bcasts |-> {}]

\* send A(k, j) down column A(k+1:mt-1, j), tag j + A_mt
GenericTrailingBcast(A_mt, A_nt, lookahead, k) ==
    [kind |-> "trailingBcast", k |-> k, j |-> k+1+lookahead,
     din |-> {},
     dout |-> {column(k+1+lookahead), column(A_nt-1), mpi_bandwidth},
     priority |-> 0,
     op |-> "none", target |-> "none", queue |-> NoQueue, args |-> <<>>,
     reads |-> {}, writes |-> {},
     bcasts |-> {[src |-> <<k, j>>, dst |-> sub(k+1, A_mt-1, j, j),
                  tag |-> j + A_mt]
                 : j \in k+1+lookahead .. A_nt-1}]

\* A(k+1:mt-1, kl+1:nt-1) -= A(k+1:mt-1, k) * A(k, kl+1:nt-1)
GenericTrailingGemm(target, A_mt, A_nt, lookahead, k) ==
    [kind |-> "trailingGemm", k |-> k, j |-> k+1+lookahead,
     din |-> {column(k)},
     dout |-> {column(k+1+lookahead), column(A_nt-1)}, priority |-> 0,
     op |-> "gemm", target |-> target, queue |-> NoQueue, args |-> <<>>,
     reads |-> sub(k+1, A_mt-1, k, k) \cup sub(k, k, k+1+lookahead, A_nt-1),
     writes |-> sub(k+1, A_mt-1, k+1+lookahead, A_nt-1),
     bcasts |-> {}]

\* for (j = k+1; j < k+1+lookahead && j < A_nt; ++j): the columns
LookaheadColumns(A_nt, lookahead, k) == k+1 .. Min(k+lookahead, A_nt-1)

\* the two tasks of each lookahead column, in the order of the loop
GenericLookahead(A_mt, A_nt, lookahead, k) ==
    LET n == Cardinality(LookaheadColumns(A_nt, lookahead, k))
    IN  [x \in 1 .. 2*n |->
            IF x % 2 = 1
            THEN GenericLookaheadTrsm(A_mt, A_nt, k, k + (x+1) \div 2)
            ELSE GenericLookaheadGemm(A_mt, A_nt, k, k + x \div 2)]

\* the trailing tasks under if (k+1+lookahead < A_nt-1)
GenericTrailingSkipsLastColumn(target, A_mt, A_nt, lookahead, k) ==
    IF k+1+lookahead < A_nt-1
    THEN << GenericTrailingTrsm(A_mt, A_nt, lookahead, k),
            GenericTrailingBcast(A_mt, A_nt, lookahead, k),
            GenericTrailingGemm(target, A_mt, A_nt, lookahead, k) >>
    ELSE << >>

\* the trailing tasks under if (k+1+lookahead <= A_nt)
GenericTrailingInclusive(target, A_mt, A_nt, lookahead, k) ==
    IF k+1+lookahead <= A_nt
    THEN << GenericTrailingTrsm(A_mt, A_nt, lookahead, k),
            GenericTrailingBcast(A_mt, A_nt, lookahead, k),
            GenericTrailingGemm(target, A_mt, A_nt, lookahead, k) >>
    ELSE << >>

\* if (k+1+lookahead < A_nt): the three tasks of the trailing submatrix
GenericTrailing(target, A_mt, A_nt, lookahead, k) ==
    IF k+1+lookahead < A_nt
    THEN << GenericTrailingTrsm(A_mt, A_nt, lookahead, k),
            GenericTrailingBcast(A_mt, A_nt, lookahead, k),
            GenericTrailingGemm(target, A_mt, A_nt, lookahead, k) >>
    ELSE << >>

\* the body of the loop over k
GenericIteration(target, A_mt, A_nt, ib, lookahead, k) ==
    << GenericPanel(A_mt, A_nt, ib, k),
       GenericTrsmRight(A_mt, A_nt, k),
       GenericPanelBcast(A_mt, A_nt, k) >>
    \o GenericLookahead(A_mt, A_nt, lookahead, k)
    \o GenericTrailing(target, A_mt, A_nt, lookahead, k)

RECURSIVE GenericLoop(_, _, _, _, _, _)
GenericLoop(target, A_mt, A_nt, ib, lookahead, k) ==
    IF k < Min(A_mt, A_nt)
    THEN GenericIteration(target, A_mt, A_nt, ib, lookahead, k)
         \o GenericLoop(target, A_mt, A_nt, ib, lookahead, k+1)
    ELSE << >>

\* internal::specialization::getrf_nopiv, generic target: the tasks the
\* master thread submits, in order
GenericDriver(target, A_mt, A_nt, ib, max_panel_threads, lookahead) ==
    GenericLoop(target, A_mt, A_nt, ib, lookahead, 0)

---------------------------------------------------------------------------
(* The tasks of the Devices driver.                                        *)

DevicesPanel(A_mt, A_nt, ib, k) ==
    [kind |-> "panel", k |-> k, j |-> k,
     din |-> {}, dout |-> {column(k), diag(k)}, priority |-> 1,
     op |-> "getrf", target |-> "HostTask", queue |-> NoQueue, args |-> <<ib>>,
     reads |-> {}, writes |-> sub(k, k, k, k),
     bcasts |-> {[src |-> <<k, k>>,
                  dst |-> sub(k+1, A_mt-1, k, k) \cup sub(k, k, k+1, A_nt-1),
                  tag |-> k]}]

DevicesTrsmRight(A_mt, A_nt, k) ==
    [kind |-> "trsmRight", k |-> k, j |-> k,
     din |-> {diag(k)}, dout |-> {column(k)}, priority |-> 1,
     op |-> "trsmRight", target |-> "Devices", queue |-> 0, args |-> <<>>,
     reads |-> sub(k, k, k, k), writes |-> sub(k+1, A_mt-1, k, k),
     bcasts |-> {}]

DevicesPanelBcast(A_mt, A_nt, k) ==
    [kind |-> "panelBcast", k |-> k, j |-> k,
     din |-> {}, dout |-> {column(k), mpi_bandwidth}, priority |-> 1,
     op |-> "none", target |-> "none", queue |-> NoQueue, args |-> <<>>,
     reads |-> {}, writes |-> {},
     bcasts |-> {[src |-> <<i, k>>, dst |-> sub(i, i, k+1, A_nt-1), tag |-> i]
                 : i \in k+1 .. A_mt-1}]

DevicesLookaheadTrsm(A_mt, A_nt, k, j) ==
    [kind |-> "lookaheadTrsm", k |-> k, j |-> j,
     din |-> {diag(k)}, dout |-> {column(j)}, priority |-> 1,
     op |-> "trsmLeft", target |-> "Devices", queue |-> j-k+1, args |-> <<>>,
     reads |-> sub(k, k, k, k), writes |-> sub(k, k, j, j),
     bcasts |-> {[src |-> <<k, j>>, dst |-> sub(k+1, A_mt-1, j, j),
                  tag |-> j]}]

DevicesLookaheadGemm(A_mt, A_nt, k, j) ==
    [kind |-> "lookaheadGemm", k |-> k, j |-> j,
     din |-> {column(k)}, dout |-> {column(j)}, priority |-> 1,
     op |-> "gemm", target |-> "Devices", queue |-> j-k+1, args |-> <<>>,
     reads |-> sub(k+1, A_mt-1, k, k) \cup sub(k, k, j, j),
     writes |-> sub(k+1, A_mt-1, j, j),
     bcasts |-> {}]

DevicesTrailingTrsm(A_mt, A_nt, lookahead, k) ==
    [kind |-> "trailingTrsm", k |-> k, j |-> k+1+lookahead,
     din |-> {diag(k)},
     dout |-> {column(k+1+lookahead), column(A_nt-1)}, priority |-> 0,
     op |-> "trsmLeft", target |-> "Devices", queue |-> 1, args |-> <<>>,
     reads |-> sub(k, k, k, k), writes |-> sub(k, k, k+1+lookahead, A_nt-1),
     bcasts |-> {}]

\* variant: the trailing broadcast with tag j, not j + A_mt
DevicesTrailingBcastTagJ(A_mt, A_nt, lookahead, k) ==
    [kind |-> "trailingBcast", k |-> k, j |-> k+1+lookahead,
     din |-> {},
     dout |-> {column(k+1+lookahead), column(A_nt-1), mpi_bandwidth},
     priority |-> 0,
     op |-> "none", target |-> "none", queue |-> NoQueue, args |-> <<>>,
     reads |-> {}, writes |-> {},
     bcasts |-> {[src |-> <<k, j>>, dst |-> sub(k+1, A_mt-1, j, j),
                  tag |-> j]
                 : j \in k+1+lookahead .. A_nt-1}]

DevicesTrailingBcast(A_mt, A_nt, lookahead, k) ==
    [kind |-> "trailingBcast", k |-> k, j |-> k+1+lookahead,
     din |-> {},
     dout |-> {column(k+1+lookahead), column(A_nt-1), mpi_bandwidth},
     priority |-> 0,
     op |-> "none", target |-> "none", queue |-> NoQueue, args |-> <<>>,
     reads |-> {}, writes |-> {},
     bcasts |-> {[src |-> <<k, j>>, dst |-> sub(k+1, A_mt-1, j, j),
                  tag |-> j + A_mt]
                 : j \in k+1+lookahead .. A_nt-1}]

DevicesTrailingGemm(A_mt, A_nt, lookahead, k) ==
    [kind |-> "trailingGemm", k |-> k, j |-> k+1+lookahead,
     din |-> {column(k)},
     dout |-> {column(k+1+lookahead), column(A_nt-1)}, priority |-> 0,
     op |-> "gemm", target |-> "Devices", queue |-> 1, args |-> <<>>,
     reads |-> sub(k+1, A_mt-1, k, k) \cup sub(k, k, k+1+lookahead, A_nt-1),
     writes |-> sub(k+1, A_mt-1, k+1+lookahead, A_nt-1),
     bcasts |-> {}]

\* release the hold on the diagonal tile: if (k+1 < A_nt), on A(k, k)
DevicesReleaseDiag(A_mt, A_nt, k) ==
    [kind |-> "releaseDiag", k |-> k, j |-> k,
     din |-> {}, dout |-> {diag(k)}, priority |-> 0,
     op |-> "release", target |-> "none", queue |-> NoQueue, args |-> <<>>,
     reads |-> {},
     writes |-> IF k+1 < A_nt THEN sub(k, k, k, k) ELSE {},
     bcasts |-> {}]

\* variant: the column release with depend(inout:diag[k])
ReleaseColumnOnDiag(A_mt, A_nt, k) ==
    [kind |-> "releaseColumn", k |-> k, j |-> k,
     din |-> {}, dout |-> {diag(k)}, priority |-> 0,
     op |-> "release", target |-> "none", queue |-> NoQueue, args |-> <<>>,
     reads |-> {}, writes |-> sub(k+1, A_nt-1, k, k),
     bcasts |-> {}]

\* release the panel column: for (i = k+1; i < A_nt; ++i), on A(i, k)
DevicesReleaseColumn(A_mt, A_nt, k) ==
    [kind |-> "releaseColumn", k |-> k, j |-> k,
     din |-> {}, dout |-> {column(k)}, priority |-> 0,
     op |-> "release", target |-> "none", queue |-> NoQueue, args |-> <<>>,
     reads |-> {}, writes |-> sub(k+1, A_nt-1, k, k),
     bcasts |-> {}]

DevicesLookahead(A_mt, A_nt, lookahead, k) ==
    LET n == Cardinality(LookaheadColumns(A_nt, lookahead, k))
    IN  [x \in 1 .. 2*n |->
            IF x % 2 = 1
            THEN DevicesLookaheadTrsm(A_mt, A_nt, k, k + (x+1) \div 2)
            ELSE DevicesLookaheadGemm(A_mt, A_nt, k, k + x \div 2)]

DevicesTrailing(A_mt, A_nt, lookahead, k) ==
    IF k+1+lookahead < A_nt
    THEN << DevicesTrailingTrsm(A_mt, A_nt, lookahead, k),
            DevicesTrailingBcast(A_mt, A_nt, lookahead, k),
            DevicesTrailingGemm(A_mt, A_nt, lookahead, k) >>
    ELSE << >>

DevicesIteration(A_mt, A_nt, ib, lookahead, k) ==
    << DevicesPanel(A_mt, A_nt, ib, k),
       DevicesTrsmRight(A_mt, A_nt, k),
       DevicesPanelBcast(A_mt, A_nt, k) >>
    \o DevicesLookahead(A_mt, A_nt, lookahead, k)
    \o DevicesTrailing(A_mt, A_nt, lookahead, k)
    \o << DevicesReleaseDiag(A_mt, A_nt, k),
          DevicesReleaseColumn(A_mt, A_nt, k) >>

RECURSIVE DevicesLoop(_, _, _, _, _)
DevicesLoop(A_mt, A_nt, ib, lookahead, k) ==
    IF k < Min(A_mt, A_nt)
    THEN DevicesIteration(A_mt, A_nt, ib, lookahead, k)
         \o DevicesLoop(A_mt, A_nt, ib, lookahead, k+1)
    ELSE << >>

\* internal::specialization::getrf_nopiv, Target::Devices
DevicesDriver(A_mt, A_nt, ib, max_panel_threads, lookahead) ==
    DevicesLoop(A_mt, A_nt, ib, lookahead, 0)

\* the overload the call resolves to
Specialization(target, A_mt, A_nt, ib, max_panel_threads, lookahead) ==
    IF target = "Devices"
    THEN DevicesDriver(A_mt, A_nt, ib, max_panel_threads, lookahead)
    ELSE GenericDriver(target, A_mt, A_nt, ib, max_panel_threads, lookahead)

\* the call getrf_nopiv<target>(A, opts) makes, from what it resolved
Program(a) ==
    Specialization(a.target, mt, nt, a.ib, a.max_panel_threads, a.lookahead)

---------------------------------------------------------------------------
(* The kernels, on tiles of one element.  A process applies a kernel to    *)
(* the tiles it owns among those the call names.                           *)

\* the tiles a kernel reads when it updates tile x in iteration k
Operands(op, k, x) ==
    CASE op = "gemm" -> << <<x[1], k>>, <<k, x[2]>> >>
      [] op \in {"trsmRight", "trsmLeft"} -> << <<k, k>> >>
      [] OTHER -> << >>

\* the content of tile x after the kernel, from the contents v
TileKernel(v, op, k, x) ==
    CASE op = "gemm" -> FSub(v[x], FMul(v[<<x[1], k>>], v[<<k, x[2]>>]))
      [] op = "trsmRight" -> FDiv(v[x], v[<<k, k>>])
      \* a unit lower triangular factor of one element is 1
      [] op = "trsmLeft" -> v[x]
      \* L = 1 (not stored), U = A
      [] op = "getrf" -> v[x]
      [] OTHER -> v[x]

IsKernel(op) == op \in {"getrf", "trsmRight", "trsmLeft", "gemm"}

\* the tiles of process r the body of task T writes
LocalWrites(T, r) == {x \in T.writes \cap Tiles : tileIsLocal(x, r)}

RunKernel(v, T, r) ==
    [x \in Tiles |-> IF x \in LocalWrites(T, r)
                     THEN TileKernel(v, T.op, T.k, x) ELSE v[x]]

LogKernel(l, T, r) ==
    [x \in Tiles |->
        IF x \in LocalWrites(T, r) /\ IsKernel(T.op)
        THEN Append(l[x], [op |-> T.op, k |-> T.k,
                           with |-> Operands(T.op, T.k, x)])
        ELSE l[x]]

---------------------------------------------------------------------------
(* Broadcasts.  The owner of the tile sends it to every other process      *)
(* that owns a tile of the destination view; a message is matched by       *)
(* source, destination and tag.                                            *)

Receivers(b) == {tileRank(x) : x \in b.dst \cap Tiles} \ {tileRank(b.src)}

\* the sends of task T that process r has still to complete
PendingSends(T, r) ==
    {<<b, d>> \in T.bcasts \X Procs :
        /\ tileRank(b.src) = r
        /\ d \in Receivers(b)
        /\ <<b.src, d>> \notin sent[r]}

\* the receives of task T that process r has still to complete
PendingRecvs(T, r) ==
    {b \in T.bcasts : r \in Receivers(b) /\ b.src \notin rcvd[r]}

Communicates(T, r) ==
    \E b \in T.bcasts :
        \/ r \in Receivers(b)
        \/ tileRank(b.src) = r /\ Receivers(b) # {}

---------------------------------------------------------------------------
(* The task scheduler: the depend clauses of sibling tasks.                *)

\* a later task B waits for an earlier task A
DependsOn(B, A) ==
    \/ A.dout \cap (B.din \cup B.dout) # {}
    \/ A.din \cap B.dout # {}

Submitted(r) == 1 .. Len(tasks[r])

Ready(r, t) == \A u \in waits[r][t] : status[r][u] = "done"

Executing(r) == {t \in Submitted(r) : status[r][t] = "running"}

\* a team of one thread
OneThread(r) == 1 - Cardinality(Executing(r))

\* the threads of the team that execute no task
FreeThreads(r) == omp_max_threads - Cardinality(Executing(r))

---------------------------------------------------------------------------
(* The calls of the model.                                                 *)

\* the matrix number s of a shape: (i*j + 2*j + [i = j] + s) mod 5
InputMatrix(s, m, n) ==
    [x \in (0 .. m-1) \X (0 .. n-1) |->
        (x[1] * x[2] + 2 * x[2] + (IF x[1] = x[2] THEN 1 ELSE 0) + s)
            % Modulus]

Present(S) == {<<>>} \cup {<<v>> : v \in S}

OptionMaps ==
    [Lookahead : Present((0 - 1) .. MaxLookahead),
     InnerBlocking : Present({0 - 1, 0, 4}),
     MaxPanelThreads : Present({0, 1, MaxThreads + 1}),
     Target : Present({"Host", "HostTask", "HostNest", "HostBatch",
                       "Devices", "Unknown"}),
     BlockSize : Present({8})]

\* a call that sets nothing but a lookahead >= 0 and the Devices target
PlainCall(o) ==
    /\ o.InnerBlocking = <<>> /\ o.MaxPanelThreads = <<>>
    /\ o.BlockSize = <<>>
    /\ o.Target \in {<<>>, <<"Devices">>}
    /\ LookaheadAssert(o)

\* no compatibility entry point is involved: getrf_nopiv is called directly
ScalapackShims == {"slate_pposv", "slate_planhe"}
Shims == ScalapackShims \cup {"slate_trmm"}

NoShim ==
    [fn |-> "none", pc |-> "idle", calls |-> 0, entry |-> << >>,
     saved |-> << >>, info |-> << >>,
     target |-> [fn \in Shims |-> << >>], driver |-> << >>, inits |-> 0]

\* no call of tpmqrt is involved
NoTpmqrt == [pc |-> "none"]

\* the state of every process on entry to getrf_nopiv(A, opts)
Entry ==
    /\ pc = [r \in Procs |-> "call"]
    /\ args = [r \in Procs |-> << >>]
    /\ tasks = [r \in Procs |-> << >>]
    /\ status = [r \in Procs |-> << >>]
    /\ waits = [r \in Procs |-> << >>]
    /\ val = [r \in Procs |->
                [x \in Tiles |-> IF tileIsLocal(x, r) THEN A0[x] ELSE NoTile]]
    /\ log = [r \in Procs |-> [x \in Tiles |-> << >>]]
    /\ sent = [r \in Procs |-> {}]
    /\ rcvd = [r \in Procs |-> {}]
    /\ msgs = {}
    /\ shim = NoShim

\* One process, the whole team: every shape, input, lookahead, and both
\* drivers.
Init ==
    /\ p = 1 /\ q = 1
    /\ mt \in 0 .. MaxMt
    /\ nt \in 0 .. MaxNt
    /\ opts \in {o \in OptionMaps : PlainCall(o)}
    /\ A0 \in {InputMatrix(s, mt, nt) : s \in 1 .. MaxInput}
    /\ omp_max_threads = MaxThreads
    /\ num_blas_threads = omp_max_threads
    /\ mpi_initialized = TRUE
    /\ tp = NoTpmqrt
    /\ Entry

\* One process, small shapes: the calls that set at most two options, with
\* the whole team or one thread.
InitOptions ==
    /\ p = 1 /\ q = 1
    /\ mt \in 0 .. SweepTiles
    /\ nt \in 0 .. SweepTiles
    /\ opts \in {o \in OptionMaps :
                    Cardinality({key \in OptionKeys : Has(o, key)}) <= 2}
    /\ A0 = InputMatrix(1, mt, nt)
    /\ omp_max_threads \in {1, MaxThreads}
    /\ num_blas_threads \in {1, omp_max_threads}
    /\ mpi_initialized = TRUE
    /\ tp = NoTpmqrt
    /\ Entry

\* Several processes: the grids of GridProcs processes, the generic
\* driver, and a team of lookahead + 2 threads.
InitGrid ==
    /\ p \in 1 .. GridProcs /\ q \in 1 .. GridProcs
    /\ p * q = GridProcs
    /\ mt \in 1 .. GridMt
    /\ nt \in 1 .. GridNt
    /\ opts \in {o \in OptionMaps :
                    /\ PlainCall(o) /\ o.Target = <<>>
                    /\ LookaheadOf(o) <= GridLookahead}
    /\ A0 = InputMatrix(1, mt, nt)
    /\ omp_max_threads = LookaheadOf(opts) + 2
    /\ num_blas_threads = omp_max_threads
    /\ mpi_initialized = TRUE
    /\ tp = NoTpmqrt
    /\ Entry

\* Every grid of up to MaxGrid x MaxGrid processes, every shape and
\* lookahead, and both drivers: the calls whose submission is examined.
InitSubmit ==
    /\ p \in 1 .. MaxGrid /\ q \in 1 .. MaxGrid
    /\ mt \in 0 .. MaxMt
    /\ nt \in 0 .. MaxNt
    /\ opts \in {o \in OptionMaps : PlainCall(o)}
    /\ A0 = InputMatrix(1, mt, nt)
    /\ omp_max_threads = MaxThreads
    /\ num_blas_threads = omp_max_threads
    /\ mpi_initialized = TRUE
    /\ tp = NoTpmqrt
    /\ Entry

---------------------------------------------------------------------------
(* The entry points.  Every process makes the call, and nothing in the     *)
(* entry depends on another process: the processes take each step of the   *)
(* entry together.                                                         *)

At_(l) == \A r \in Procs : pc[r] = l

\* getrf_nopiv(A, opts): the switch over the target; no case matches an
\* unknown value, and the function returns
Call ==
    /\ At_("call")
    /\ pc' = [r \in Procs |-> IF Dispatch(TargetOf(opts)) = "none"
                              THEN "returned" ELSE "resolve"]
    /\ UNCHANGED <<call, env, args, tasks, status, waits, val, log, sent, rcvd, msgs>>

\* getrf_nopiv<target>(A, opts): a failed assert aborts the process
Resolve ==
    /\ At_("resolve")
    /\ args' = [r \in Procs |->
                    [target |-> Dispatch(TargetOf(opts)),
                     lookahead |-> LookaheadOf(opts),
                     ib |-> InnerBlockingOf(opts),
                     max_panel_threads |->
                         MaxPanelThreadsOf(opts, omp_max_threads)]]
    /\ pc' = [r \in Procs |->
                IF /\ LookaheadAssert(opts)
                   /\ InnerBlockingAssert(opts)
                   /\ MaxPanelThreadsAssert(opts, omp_max_threads)
                THEN "submit" ELSE "aborted"]
    /\ UNCHANGED <<call, env, tasks, status, waits, val, log, sent, rcvd, msgs>>

---------------------------------------------------------------------------
(* The driver: the master thread.                                          *)

\* the loop over k: the master thread generates the tasks, and the
\* runtime records for each the earlier tasks its depend clauses make it
\* wait for; the master then reaches its taskwait
Submit ==
    /\ At_("submit")
    /\ tasks' = [r \in Procs |-> Program(args[r])]
    /\ status' = [r \in Procs |->
                    [t \in 1 .. Len(tasks'[r]) |-> "pending"]]
    /\ waits' = [r \in Procs |->
                    [t \in 1 .. Len(tasks'[r]) |->
                        {u \in 1 .. t-1 :
                            DependsOn(tasks'[r][t], tasks'[r][u])}]]
    /\ pc' = [r \in Procs |-> "taskwait"]
    /\ UNCHANGED <<call, env, args, val, log, sent, rcvd, msgs>>

\* variant: the master thread goes on without waiting for the tasks
TaskNoWait(r) ==
    /\ pc[r] = "taskwait"
    /\ pc' = [pc EXCEPT ![r] = "updateOrigin"]
    /\ UNCHANGED <<call, env, args, tasks, status, waits, val, log, sent, rcvd, msgs>>

\* #pragma omp taskwait
TaskWait(r) ==
    /\ pc[r] = "taskwait"
    /\ \A t \in Submitted(r) : status[r][t] = "done"
    /\ pc' = [pc EXCEPT ![r] = "updateOrigin"]
    /\ UNCHANGED <<call, env, args, tasks, status, waits, val, log, sent, rcvd, msgs>>

\* A.tileUpdateAllOrigin()
TileUpdateAllOrigin(r) ==
    /\ pc[r] = "updateOrigin"
    /\ pc' = [pc EXCEPT ![r] = "clearWorkspace"]
    /\ UNCHANGED <<call, env, args, tasks, status, waits, val, log, sent, rcvd, msgs>>

\* A.clearWorkspace(): the copies of the tiles of other processes go
ClearWorkspace(r) ==
    /\ pc[r] = "clearWorkspace"
    /\ pc' = [pc EXCEPT ![r] = "returned"]
    /\ val' = [val EXCEPT ![r] =
                [x \in Tiles |-> IF tileIsLocal(x, r) THEN @[x] ELSE NoTile]]
    /\ UNCHANGED <<call, env, args, tasks, status, waits, log, sent, rcvd, msgs>>

---------------------------------------------------------------------------
(* The team: the execution of the tasks.                                   *)

\* a thread takes a task whose dependences are satisfied and runs the
\* kernel of its body; the task then stays in its broadcasts until they
\* return
Start(r, t) ==
    /\ status[r][t] = "pending"
    /\ Ready(r, t)
    /\ FreeThreads(r) > 0
    /\ val' = [val EXCEPT ![r] = RunKernel(@, tasks[r][t], r)]
    /\ log' = [log EXCEPT ![r] = LogKernel(@, tasks[r][t], r)]
    /\ status' = [status EXCEPT ![r][t] = "running"]
    /\ UNCHANGED <<call, env, args, pc, tasks, waits, sent, rcvd, msgs>>

\* a message passes from a send of process o to a receive of process r
\* with the same source and tag
Transfer(o, r) ==
    \E ts \in Submitted(o), tr \in Submitted(r) :
        /\ status[o][ts] = "running"
        /\ status[r][tr] = "running"
        /\ \E s \in PendingSends(tasks[o][ts], o),
              b \in PendingRecvs(tasks[r][tr], r) :
            /\ s[2] = r
            /\ tileRank(b.src) = o
            /\ b.tag = s[1].tag
            /\ sent' = [sent EXCEPT ![o] = @ \cup {<<s[1].src, r>>}]
            /\ rcvd' = [rcvd EXCEPT ![r] = @ \cup {b.src}]
            /\ val' = [val EXCEPT ![r][b.src] = val[o][s[1].src]]
            /\ msgs' = msgs \cup {[src |-> o, dst |-> r, tag |-> b.tag,
                                   k |-> tasks[o][ts].k,
                                   tile |-> s[1].src, into |-> b.src]}
        /\ UNCHANGED <<call, env, args, pc, tasks, status, waits, log>>

\* the body of the task returns, its broadcasts complete
Finish(r, t) ==
    /\ status[r][t] = "running"
    /\ PendingSends(tasks[r][t], r) = {}
    /\ PendingRecvs(tasks[r][t], r) = {}
    /\ status' = [status EXCEPT ![r][t] = "done"]
    /\ UNCHANGED <<call, env, args, pc, tasks, waits, val, log, sent, rcvd, msgs>>

CallStep == Call
ResolveStep == Resolve
SubmitStep == Submit
TaskWaitStep == \E r \in Procs : TaskWait(r)
TileUpdateAllOriginStep == \E r \in Procs : TileUpdateAllOrigin(r)
ClearWorkspaceStep == \E r \in Procs : ClearWorkspace(r)
StartStep == \E r \in Procs : \E t \in Submitted(r) : Start(r, t)
FinishStep == \E r \in Procs : \E t \in Submitted(r) : Finish(r, t)
TransferStep == \E o \in Procs : \E r \in Procs : Transfer(o, r)

Next ==
    \/ CallStep
    \/ ResolveStep
    \/ SubmitStep
    \/ TaskWaitStep
    \/ TileUpdateAllOriginStep
    \/ ClearWorkspaceStep
    \/ StartStep
    \/ FinishStep
    \/ TransferStep

\* with one process there is no message
NextLocal ==
    \/ CallStep
    \/ ResolveStep
    \/ SubmitStep
    \/ TaskWaitStep
    \/ TileUpdateAllOriginStep
    \/ ClearWorkspaceStep
    \/ StartStep
    \/ FinishStep

Spec == Init /\ [][NextLocal]_vars

SpecOptions == InitOptions /\ [][NextLocal]_vars

SpecGrid == InitGrid /\ [][Next]_vars

\* The runtime leaves no thread idle while a task is ready, the transport
\* delivers a message whose send and receive are posted, and the master
\* thread goes on: some step is taken as long as one is possible.
SpecGridFair == SpecGrid /\ WF_vars(Next)

\* the entry and the generation of the tasks, on every process
NextSubmit ==
    \/ CallStep
    \/ ResolveStep
    \/ SubmitStep

SpecSubmit == InitSubmit /\ [][NextSubmit]_vars

---------------------------------------------------------------------------
(* Tile accesses of a task on process r: the tiles its kernel reads and    *)
(* writes, the tile a broadcast sends (read by its owner) and the copy a   *)
(* broadcast receives (written by the receiver).                           *)

TaskReads(T, r) ==
    (T.reads \cap Tiles)
    \cup {b.src : b \in {c \in T.bcasts :
                            tileRank(c.src) = r /\ Receivers(c) # {}}}

TaskWrites(T, r) ==
    (T.writes \cap Tiles)
    \cup {b.src : b \in {c \in T.bcasts : r \in Receivers(c)}}

\* the tiles both tasks access, one of them writing
Contended(T, U, r) ==
    (TaskWrites(T, r) \cap (TaskReads(U, r) \cup TaskWrites(U, r)))
    \cup (TaskReads(T, r) \cap TaskWrites(U, r))

Conflict(T, U, r) == Contended(T, U, r) # {}

\* C1: data-race freedom.  On every process, of two submitted tasks that
\* access a common tile, one of them writing it, the later submitted one
\* has not started before the earlier one is done: they execute in
\* submission order and never at the same time.
C1_RaceFree ==
    \A r \in Procs : \A u \in Submitted(r) :
        status[r][u] # "pending" =>
            \A t \in 1 .. u-1 :
                status[r][t] # "done" =>
                    ~ Conflict(tasks[r][t], tasks[r][u], r)

\* a trailing gemm and a later task meet on a tile of a column the gemm
\* does not name; the later task runs, beside a third task
C1_Witness ==
    \E r \in Procs : \E t \in Submitted(r), u \in Submitted(r) :
        /\ t < u
        /\ status[r][t] = "done"
        /\ status[r][u] = "running"
        /\ tasks[r][t].kind = "trailingGemm"
        /\ Cardinality(Executing(r)) >= 2
        /\ \E x \in Contended(tasks[r][t], tasks[r][u], r) :
                column(x[2]) \notin tasks[r][t].dout

---------------------------------------------------------------------------
(* The history of a tile the factorization prescribes.                     *)

GemmOp(x, k) == [op |-> "gemm", k |-> k, with |-> << <<x[1], k>>, <<k, x[2]>> >>]

\* panel factor on the diagonal, trsm-right with A(j, j) below it, trsm-left
\* with A(i, i) right of it
FinishingOp(x) ==
    LET k == Min(x[1], x[2])
    IN  IF x[1] = x[2] THEN [op |-> "getrf", k |-> k, with |-> << >>]
        ELSE IF x[1] > x[2]
             THEN [op |-> "trsmRight", k |-> k, with |-> << <<k, k>> >>]
             ELSE [op |-> "trsmLeft", k |-> k, with |-> << <<k, k>> >>]

ExpectedOps(x) ==
    [n \in 1 .. Min(x[1], x[2]) + 1 |->
        IF n <= Min(x[1], x[2]) THEN GemmOp(x, n-1) ELSE FinishingOp(x)]

IsPrefix(s, t) == Len(s) <= Len(t) /\ \A n \in 1 .. Len(s) : s[n] = t[n]

\* the master thread is past its taskwait
PastTaskWait(r) == pc[r] \in {"updateOrigin", "clearWorkspace", "returned"}

Factored(r) == PastTaskWait(r) /\ tasks[r] # << >>

\* C2: per-tile operation sequence.  At every moment the kernels applied so
\* far to tile A(i, j) are the first of: the gemm updates of iterations
\* 0 .. min(i, j)-1 in increasing order, then the finishing operation of
\* iteration min(i, j); once the tasks are complete, all of them.
C2_TileHistory ==
    \A r \in Procs : \A x \in Tiles :
        /\ IsPrefix(log[r][x], ExpectedOps(x))
        /\ (Factored(r) /\ tileIsLocal(x, r)) => log[r][x] = ExpectedOps(x)

\* a tile with two gemm updates and its finishing operation, after a run
\* with lookahead columns and trailing columns
C2_Witness ==
    \E r \in Procs : \E x \in Tiles :
        /\ pc[r] = "returned"
        /\ Len(log[r][x]) >= 3
        /\ \E t \in Submitted(r) : tasks[r][t].kind = "lookaheadGemm"
        /\ \E t \in Submitted(r) : tasks[r][t].kind = "trailingGemm"

---------------------------------------------------------------------------
(* The factors read from the overwritten storage, and their product.       *)

\* the content of tile x on its owner
Stored(x) == val[tileRank(x)][x]

LowerUnit(i, k) == IF i = k THEN 1 ELSE IF i > k THEN Stored(<<i, k>>) ELSE 0
Upper(k, j) == IF k <= j THEN Stored(<<k, j>>) ELSE 0

FAdd(x, y) == IF IsNum(x) /\ IsNum(y) THEN (x + y) % Modulus ELSE NaN

RECURSIVE ProductLU(_, _, _)
\* sum over the first n columns of L and rows of U
ProductLU(i, j, n) ==
    IF n = 0 THEN 0
    ELSE FAdd(ProductLU(i, j, n-1), FMul(LowerUnit(i, n-1), Upper(n-1, j)))

\* right-looking elimination of a matrix M, step k
Eliminate(M, k) ==
    [x \in DOMAIN M |->
        IF x[1] > k /\ x[2] = k THEN FDiv(M[x], M[<<k, k>>])
        ELSE IF x[1] > k /\ x[2] > k
             THEN FSub(M[x], FMul(FDiv(M[<<x[1], k>>], M[<<k, k>>]),
                                  M[<<k, x[2]>>]))
             ELSE M[x]]

RECURSIVE Elimination(_, _)
Elimination(M, k) ==
    IF k < Min(mt, nt) THEN Elimination(Eliminate(M, k), k+1) ELSE M

\* every pivot of the elimination of M is a nonzero number
NoZeroPivot(M) ==
    \A k \in 0 .. Min(mt, nt) - 1 : Elimination(M, 0)[<<k, k>>] \in Scalars \ {0}

AllReturned == \A r \in Procs : pc[r] = "returned"

\* C3: factorization correctness.  When the call has returned on a matrix
\* with no zero pivot, the product of L (unit lower, read below the
\* diagonal) and U (upper, read on and above it) is the matrix on entry.
C3_ProductIsInput ==
    (AllReturned /\ Min(mt, nt) > 0 /\ NoZeroPivot(A0)) =>
        \A x \in Tiles : ProductLU(x[1], x[2], Min(mt, nt)) = A0[x]

\* a returned factorization of MaxMt rows of tiles and more columns, with
\* nonzero pivots
C3_Witness ==
    /\ AllReturned
    /\ mt = MaxMt /\ nt > mt
    /\ NoZeroPivot(A0)
    /\ \A k \in 0 .. mt - 1 : Stored(<<k, k>>) # 0

---------------------------------------------------------------------------
(* The tasks of lookahead 0, run one after the other in the order of      *)
(* their submission.                                                       *)

RECURSIVE SeqRun(_, _, _, _)
SeqRun(prog, n, st, r) ==
    IF n > Len(prog) THEN st
    ELSE SeqRun(prog, n+1,
                [val |-> RunKernel(st.val, prog[n], r),
                 log |-> LogKernel(st.log, prog[n], r)], r)

\* what process r holds after the run without lookahead
Lookahead0(r) ==
    SeqRun(Specialization(args[r].target, mt, nt, args[r].ib,
                          args[r].max_panel_threads, 0),
           1,
           [val |-> [x \in Tiles |-> A0[x]],
            log |-> [x \in Tiles |-> << >>]],
           r)

\* C4: lookahead invariance.  Whatever the lookahead and the schedule, once
\* the tasks are complete every tile has received the operations, with the
\* operand tiles, and holds the content of the run with lookahead 0 in
\* submission order.
C4_SameAsLookahead0 ==
    \A r \in Procs :
        Factored(r) => (val[r] = Lookahead0(r).val /\ log[r] = Lookahead0(r).log)

\* a completed run with lookahead 2 on at least three columns
C4_Witness ==
    \E r \in Procs :
        /\ Factored(r)
        /\ args[r].lookahead = 2
        /\ nt >= 3 /\ mt >= 2
        /\ val[r] # [x \in Tiles |-> A0[x]]

---------------------------------------------------------------------------
(* The order of mutation, broadcast and read.                              *)

\* the task writes tile x with a kernel
Mutates(T, x) == IsKernel(T.op) /\ x \in T.writes

\* the task broadcasts tile x
Broadcasts(T, x) == \E b \in T.bcasts : b.src = x

\* C6: mutate, then broadcast, then read.  On every process, when a task
\* that broadcasts a tile executes, every other task that mutates the tile
\* is done; and when a task executes a kernel, for each tile the kernel
\* reads, the task that broadcasts that tile is done.
C6_MutateBcastRead ==
    \A r \in Procs : \A t \in Submitted(r) :
        status[r][t] = "running" =>
            /\ \A b \in tasks[r][t].bcasts : \A u \in Submitted(r) :
                    (u # t /\ Mutates(tasks[r][u], b.src))
                        => status[r][u] = "done"
            /\ \A x \in tasks[r][t].reads \cap Tiles :
                    \E u \in Submitted(r) :
                        /\ Broadcasts(tasks[r][u], x)
                        /\ status[r][u] = "done"

\* a trailing gemm executes, which reads the panel column sent by the
\* panel-row broadcast and the row sent by the trailing broadcast;
\* the panel task of the next iteration executes beside it
C6_Witness ==
    \E r \in Procs : \E t \in Submitted(r), u \in Submitted(r) :
        /\ status[r][t] = "running"
        /\ tasks[r][t].kind = "trailingGemm"
        /\ tasks[r][t].reads \cap Tiles # {}
        /\ status[r][u] = "running"
        /\ tasks[r][u].kind = "panel"
        /\ tasks[r][u].k = tasks[r][t].k + 1

---------------------------------------------------------------------------
(* The messages of the broadcasts.                                         *)

\* the messages the broadcasts of task T produce: one from the owner of the
\* tile to each other process that owns a tile of the destination
Messages(T) ==
    UNION {{[src |-> tileRank(b.src), dst |-> d, tag |-> b.tag,
             tile |-> b.src, k |-> T.k] : d \in Receivers(b)}
           : b \in T.bcasts}

\* the messages of the tasks process r has submitted
Issued(r) == UNION {Messages(tasks[r][t]) : t \in Submitted(r)}

\* C5: tag disjointness.  Among the messages of the broadcasts of one
\* iteration k, two with the same source rank, destination rank and tag
\* carry the same tile of the same broadcast.
C5_TagsDisjoint ==
    \A r \in Procs : \A m1 \in Issued(r), m2 \in Issued(r) :
        (m1.k = m2.k /\ m1.src = m2.src /\ m1.dst = m2.dst /\ m1.tag = m2.tag)
            => m1.tile = m2.tile

\* on a grid with two rows and two columns of processes, a panel-row
\* broadcast and a lookahead-column broadcast of one iteration leave the
\* same rank with the same tag (i = j), for different destinations
C5_Witness ==
    /\ p > 1 /\ q > 1
    /\ \E m1 \in Issued(0), m2 \in Issued(0) :
        /\ m1.k = m2.k /\ m1.src = m2.src /\ m1.tag = m2.tag
        /\ m1.tile[2] = m1.k /\ m1.tile[1] > m1.k
        /\ m2.tile[1] = m2.k /\ m2.tile[2] > m2.k
        /\ m1.dst # m2.dst

---------------------------------------------------------------------------
(* Termination.                                                            *)

AllDone == \A r \in Procs : \A t \in Submitted(r) : status[r][t] = "done"

\* C7: deadlock freedom and termination.  With lookahead + 2 threads in
\* every process, every call returns on every process with every
\* submitted task complete.
C7_Terminates == <>(AllReturned /\ AllDone)

\* the call has returned on two processes after messages in both the
\* panel-row and the column broadcasts, with trailing tasks among those
\* completed and a lookahead of GridLookahead
C7_Witness ==
    /\ AllReturned /\ AllDone
    /\ \A r \in Procs : args[r].lookahead = GridLookahead
    /\ \E r \in Procs : \E t \in Submitted(r) :
            tasks[r][t].kind = "trailingBcast" /\ tasks[r][t].priority = 0
    /\ \E m \in msgs : m.tag >= mt
    /\ \E m \in msgs : m.tag = m.k

---------------------------------------------------------------------------
(* Options.                                                                *)

Unchanged(r) ==
    val[r] = [x \in Tiles |-> IF tileIsLocal(x, r) THEN A0[x] ELSE NoTile]

\* an option value the interface rules out
InvalidOptions ==
    \/ Has(opts, "Lookahead") /\ At(opts, "Lookahead") < 0
    \/ Has(opts, "InnerBlocking") /\ At(opts, "InnerBlocking") <= 0
    \/ /\ Has(opts, "MaxPanelThreads")
       /\ \/ At(opts, "MaxPanelThreads") < 1
          \/ At(opts, "MaxPanelThreads") > omp_max_threads

\* C8: invalid option values are rejected at driver entry.  A call with
\* Lookahead < 0, InnerBlocking <= 0 or MaxPanelThreads outside
\* [1, omp_get_max_threads()] submits no task and leaves every tile as it
\* was.
C8_InvalidOptionsRejected ==
    InvalidOptions => \A r \in Procs : tasks[r] = << >> /\ Unchanged(r)

\* the call with InnerBlocking 0 has factored the matrix and returned
C8_Witness ==
    /\ opts.InnerBlocking = <<0>>
    /\ AllReturned
    /\ \E r \in Procs : tasks[r] # << >> /\ ~ Unchanged(r)

\* the value the word of the interface gives an option: the value of the
\* map, or the default
Documented(key, default) == IF opts[key] = << >> THEN default ELSE opts[key][1]

DocumentedTarget ==
    IF Documented("Target", "HostTask") = "Host" THEN "HostTask"
    ELSE Documented("Target", "HostTask")

DocumentedThreads ==
    IF omp_max_threads \div 2 >= 1 THEN omp_max_threads \div 2 ELSE 1

\* C9: option defaults.  Once the options are resolved, the lookahead is
\* the value of the map or 1, the inner blocking the value or 16, the panel
\* threads the value or max(omp_get_max_threads() / 2, 1), the target the
\* value or HostTask, with Host taken as HostTask; and the tasks submitted
\* are those of these four values, whatever else the map holds.
C9_Defaults ==
    \A r \in Procs :
        pc[r] \in {"submit", "taskwait", "updateOrigin", "clearWorkspace"} =>
            /\ args[r].lookahead = Documented("Lookahead", 1)
            /\ args[r].ib = Documented("InnerBlocking", 16)
            /\ args[r].max_panel_threads =
                    Documented("MaxPanelThreads", DocumentedThreads)
            /\ args[r].target = DocumentedTarget
            /\ pc[r] # "submit" =>
                    tasks[r] = Specialization(DocumentedTarget, mt, nt,
                                   Documented("InnerBlocking", 16),
                                   Documented("MaxPanelThreads",
                                              DocumentedThreads),
                                   Documented("Lookahead", 1))

\* a call whose map holds only a key the function does not read, on a
\* team of one thread, has submitted its tasks
C9_Witness ==
    /\ \A key \in OptionKeys : Has(opts, key) <=> key = "BlockSize"
    /\ omp_max_threads = 1
    /\ \E r \in Procs : pc[r] = "taskwait" /\ tasks[r] # << >>

\* C10: unknown target value.  A call whose Target is none of Host,
\* HostTask, HostNest, HostBatch, Devices does not return as a completed
\* call: it fails.
C10_UnknownTargetFails ==
    Dispatch(TargetOf(opts)) = "none" => \A r \in Procs : pc[r] # "returned"

\* the call with the unknown target has returned, the matrix as it was
C10_Witness ==
    /\ opts.Target = <<"Unknown">>
    /\ AllReturned
    /\ \A r \in Procs : tasks[r] = << >> /\ Unchanged(r)

---------------------------------------------------------------------------
(* Singular input.  getrf_nopiv is declared void and its body ends after   *)
(* the switch over the target: the call hands nothing back to its caller.  *)

\* what the call hands back to its caller when it has returned on process
\* r, << >> for nothing and <<v>> for a value v: void getrf_nopiv(Matrix& A,
\* Options const& opts) has no return value and no output argument, and the
\* factorization raises no exception
Diagnostic(r) == << >>

\* the pivots of the elimination of M that are exactly zero
ZeroPivots(M) ==
    {k \in 0 .. Min(mt, nt) - 1 : Elimination(M, 0)[<<k, k>>] = 0}

FirstZeroPivot(M) == CHOOSE k \in ZeroPivots(M) : \A l \in ZeroPivots(M) : k <= l

\* C11: singularity handling.  On an input whose k-th pivot is exactly
\* zero the call runs every iteration, returns without raising, and the
\* diagnostic channel reports the index k of the zero pivot to the caller.
C11_ZeroPivotReported ==
    \A r \in Procs :
        (pc[r] = "returned" /\ ZeroPivots(A0) # {}) =>
            /\ \A t \in Submitted(r) : status[r][t] = "done"
            /\ Diagnostic(r) = <<FirstZeroPivot(A0)>>

\* the call has returned on an input whose pivot 1 is zero, every task
\* complete, and the tiles after the zero pivot are not numbers
C11_Witness ==
    /\ AllReturned /\ AllDone
    /\ mt >= 3 /\ nt >= 3
    /\ ZeroPivots(A0) # {} /\ FirstZeroPivot(A0) = 1
    /\ Stored(<<1, 1>>) = 0
    /\ Stored(<<2, 1>>) = NaN
    /\ Diagnostic(0) = << >>

---------------------------------------------------------------------------
(* The compatibility entry points slate_pposv, slate_planhe (ScaLAPACK     *)
(* interface) and slate_trmm (LAPACK interface).  Each saves the BLAS      *)
(* thread count and sets it to 1, builds its matrices, calls the driver,   *)
(* and restores the count in a statement after the driver call.  There is  *)
(* no try block and no guard object around the driver call.  shim is the   *)
(* frame of the call in progress: its function, its position, the count on *)
(* entry, saved_num_blas_threads, *info, the number of calls so far and    *)
(* the number of calls of MPI_Init_thread the shims have made.             *)

\* the targets slate_scalapack_set_target() / slate_lapack_set_target() may
\* configure
ConfiguredTargets == {"HostTask", "Devices"}

\* the driver each shim calls
DriverOf(fn) ==
    CASE fn = "slate_pposv" -> "posv"
      [] fn = "slate_planhe" -> "norm"
      [] fn = "slate_trmm" -> "trmm"

\* variant: the driver called with the target only
DriverCallTargetOnly(fn, tg) ==
    [name |-> DriverOf(fn),
     opts |-> [Lookahead |-> << >>, InnerBlocking |-> << >>,
               MaxPanelThreads |-> << >>, Target |-> <<tg>>,
               BlockSize |-> << >>]]

\* the call of the driver: int64_t lookahead = 1, and
\* {{Option::Lookahead, lookahead}, {Option::Target, target}}
DriverCall(fn, tg) ==
    [name |-> DriverOf(fn),
     opts |-> [Lookahead |-> <<1>>, InnerBlocking |-> << >>,
               MaxPanelThreads |-> << >>, Target |-> <<tg>>,
               BlockSize |-> << >>]]

\* variant: slate_trmm calls MPI_Init_thread without asking MPI_Initialized
MpiInitUnguarded(fn, initialized) == fn = "slate_trmm"

\* MPI_Initialized(&initialized); if (! initialized) MPI_Init_thread(...):
\* in slate_trmm only
CallsMpiInit(fn, initialized) == fn = "slate_trmm" /\ ~initialized

\* Entry of shim fn up to the driver call:
\* static slate::Target target is set by the first call of the shim and
\* kept by the later ones; slate_trmm initializes MPI when
\* MPI_Initialized() says it is not (the ScaLAPACK entry points are called
\* on an initialized BLACS grid), then
\* saved_num_blas_threads = slate_set_num_blas_threads(1).
ShimEnter(fn) ==
    /\ shim.pc = "idle"
    /\ shim.calls < MaxCalls
    /\ fn \in ScalapackShims => mpi_initialized
    /\ mpi_initialized' = IF CallsMpiInit(fn, mpi_initialized)
                          THEN TRUE ELSE mpi_initialized
    /\ num_blas_threads' = 1
    /\ \E tg \in ConfiguredTargets :
        /\ shim.target[fn] # << >> => tg = shim.target[fn][1]
        /\ shim' = [fn |-> fn, pc |-> "driver", calls |-> shim.calls + 1,
                    entry |-> <<num_blas_threads>>,
                    saved |-> <<num_blas_threads>>, info |-> << >>,
                    target |-> [shim.target EXCEPT ![fn] = <<tg>>],
                    driver |-> <<DriverCall(fn, tg)>>,
                    inits |-> IF CallsMpiInit(fn, mpi_initialized)
                              THEN shim.inits + 1 ELSE shim.inits]
    /\ UNCHANGED <<call, lu, tp>>

\* slate::posv, slate::norm, slate::trmm returns
ShimDriverReturns ==
    /\ shim.pc = "driver"
    /\ shim' = [shim EXCEPT !.pc = "restore"]
    /\ UNCHANGED <<call, lu, num_blas_threads, mpi_initialized, tp>>

\* the driver raises an error: the exception leaves the shim, whose
\* remaining statements are not executed
ShimDriverRaises ==
    /\ shim.pc = "driver"
    /\ shim' = [shim EXCEPT !.pc = "raised"]
    /\ UNCHANGED <<call, lu, num_blas_threads, mpi_initialized, tp>>

\* slate_set_num_blas_threads(saved_num_blas_threads), then *info = 0 in
\* slate_pposv, and the shim returns
ShimRestore ==
    /\ shim.pc = "restore"
    /\ num_blas_threads' = shim.saved[1]
    /\ shim' = [shim EXCEPT !.pc = "returned",
                            !.info = IF shim.fn = "slate_pposv"
                                     THEN <<0>> ELSE @]
    /\ UNCHANGED <<call, lu, mpi_initialized, tp>>

\* the caller goes on after the call, returned or raised
ShimLeave ==
    /\ shim.pc \in {"returned", "raised"}
    /\ shim' = [shim EXCEPT !.pc = "idle"]
    /\ UNCHANGED <<call, lu, num_blas_threads, mpi_initialized, tp>>

ShimEnterStep == \E fn \in Shims : ShimEnter(fn)

NextShim ==
    \/ ShimEnterStep
    \/ ShimDriverReturns
    \/ ShimDriverRaises
    \/ ShimRestore
    \/ ShimLeave

\* a caller with any BLAS thread count, MPI initialized or not, and no
\* getrf_nopiv call of its own
InitShim ==
    /\ p = 1 /\ q = 1
    /\ mt = 0 /\ nt = 0
    /\ opts \in {o \in OptionMaps : \A key \in OptionKeys : ~Has(o, key)}
    /\ A0 = InputMatrix(1, mt, nt)
    /\ omp_max_threads = MaxThreads
    /\ num_blas_threads \in 1 .. omp_max_threads
    /\ mpi_initialized \in BOOLEAN
    /\ tp = NoTpmqrt
    /\ Entry

SpecShim == InitShim /\ [][NextShim]_vars

\* C12: the BLAS thread count is a scoped acquisition in every shim entry
\* point: it is saved at entry and set to 1 while the driver runs, and on
\* every exit path, normal return or an error raised by the driver, the
\* process-wide BLAS thread count equals its value at entry.
C12_BlasThreadsScoped ==
    /\ shim.pc = "driver" =>
           num_blas_threads = 1 /\ shim.saved = shim.entry
    /\ shim.pc \in {"returned", "raised"} =>
           <<num_blas_threads>> = shim.entry

\* the driver called by slate_pposv has raised in a caller that runs BLAS
\* with MaxThreads threads, and the count is still 1
C12_Witness ==
    /\ shim.fn = "slate_pposv" /\ shim.pc = "raised"
    /\ shim.entry = <<MaxThreads>>
    /\ num_blas_threads = 1

---------------------------------------------------------------------------
(* The BLAS thread count during a direct call.  No statement of            *)
(* getrf_nopiv, of its specializations or of the tasks they submit reads   *)
(* or sets the BLAS thread count: every action of the call leaves env      *)
(* unchanged, and the kernels run with the count the caller had.           *)

\* a kernel task of the call is executing on process r
KernelExecuting(r) ==
    \E t \in Executing(r) : IsKernel(tasks[r][t].op)

\* C13: single-threaded BLAS inside the core driver.  While any kernel task
\* of a getrf_nopiv call is executing the process-wide BLAS thread count is
\* 1, and the call leaves the count as it was before the call, when
\* getrf_nopiv is called directly.
C13_SingleThreadedBlas ==
    /\ [](\A r \in Procs : KernelExecuting(r) => num_blas_threads = 1)
    /\ [][num_blas_threads' = num_blas_threads]_vars

\* a gemm is executing in a direct call made with MaxThreads BLAS threads
C13_Witness ==
    /\ shim = NoShim
    /\ num_blas_threads = MaxThreads
    /\ \E t \in Executing(0) : tasks[0][t].op = "gemm"

---------------------------------------------------------------------------
(* The end of the driver: taskwait, tileUpdateAllOrigin, clearWorkspace.   *)

\* the master thread of process r moves from position a to position b
Moves(r, a, b) == pc[r] = a /\ pc'[r] = b

\* the master thread of process r reaches position b
Reaches(r, b) == pc[r] # b /\ pc'[r] = b

\* C14: end-of-driver ordering.  tileUpdateAllOrigin is called only after
\* every submitted task of every iteration has completed, clearWorkspace
\* only after tileUpdateAllOrigin has returned, and the driver does not
\* return while any task is pending or running, in the generic and in the
\* Devices driver.
C14_EndOfDriverOrder ==
    /\ [](\A r \in Procs :
            PastTaskWait(r) => \A t \in Submitted(r) : status[r][t] = "done")
    /\ [][\A r \in Procs :
            /\ Reaches(r, "updateOrigin") => Moves(r, "taskwait", "updateOrigin")
            /\ Reaches(r, "clearWorkspace") =>
                   Moves(r, "updateOrigin", "clearWorkspace")
            /\ Reaches(r, "returned") => Moves(r, "clearWorkspace", "returned")
         ]_vars

\* the Devices driver between tileUpdateAllOrigin and clearWorkspace, after
\* the tasks of three iterations, the release tasks among them
C14_Witness ==
    /\ pc[0] = "clearWorkspace"
    /\ args[0].target = "Devices"
    /\ mt = MaxMt /\ nt = MaxMt
    /\ \E t \in Submitted(0) :
        tasks[0][t].kind = "releaseColumn" /\ tasks[0][t].k = MaxMt - 1
    /\ AllDone

---------------------------------------------------------------------------
(* Chains of token dependences.                                            *)

RECURSIVE Closure(_, _)
\* the tasks of process r that the tasks S wait for, directly or through
\* other tasks
Closure(r, S) ==
    LET N == S \cup UNION {waits[r][u] : u \in S}
    IN  IF N = S THEN S ELSE Closure(r, N)

\* the tasks that must be done before task t of process r may start
Ancestors(r, t) == Closure(r, waits[r][t])

\* the tasks have been submitted and none has started: the dependences of
\* the call are those recorded now
JustSubmitted(r) ==
    /\ pc[r] = "taskwait"
    /\ \A t \in Submitted(r) : status[r][t] = "pending"

\* C15: the panel-row broadcast overlaps the lookahead trsm.  No chain of
\* token dependences orders the panel-row broadcast task of iteration k
\* before a lookahead trsm-left task of the same iteration (which, submitted
\* later, cannot come before it either): the lookahead trsm waits for
\* diag[k] and column[j] only.
C15_PanelBcastFreeOfLookaheadTrsm ==
    \A r \in Procs :
        JustSubmitted(r) =>
            \A u \in Submitted(r) :
                tasks[r][u].kind = "lookaheadTrsm" =>
                    /\ tasks[r][u].din = {diag(tasks[r][u].k)}
                    /\ tasks[r][u].dout = {column(tasks[r][u].j)}
                    /\ \A t \in Ancestors(r, u) :
                        ~(/\ tasks[r][t].kind = "panelBcast"
                          /\ tasks[r][t].k = tasks[r][u].k)

\* the panel-row broadcast of iteration 1 and the lookahead trsm of column
\* 3 of the same iteration are executing at the same time, lookahead 2
C15_Witness ==
    /\ pc[0] = "taskwait"
    /\ args[0].lookahead = 2
    /\ \E t, u \in Executing(0) :
        /\ tasks[0][t].kind = "panelBcast" /\ tasks[0][t].k = 1
        /\ tasks[0][u].kind = "lookaheadTrsm" /\ tasks[0][u].k = 1
        /\ tasks[0][u].j = 3

---------------------------------------------------------------------------
(* The lookahead and the overlap of the panel with the trailing update.    *)

\* task t of process r is the task of the given kind of iteration k
IsTask(r, t, kind, k) == tasks[r][t].kind = kind /\ tasks[r][t].k = k

\* C16: lookahead enables the overlap of panel and update.  With lookahead
\* 0 the panel factorization of iteration k+1 never starts before the
\* trailing gemm of iteration k has completed.  (With lookahead >= 1 and a
\* trailing block the two run at the same time: C16_Witness.)
C16_NoOverlapWithoutLookahead ==
    \A r \in Procs :
        (pc[r] = "taskwait" /\ args[r].lookahead = 0) =>
            \A t \in Submitted(r) :
                (status[r][t] # "pending" /\ tasks[r][t].kind = "panel") =>
                    \A u \in Submitted(r) :
                        IsTask(r, u, "trailingGemm", tasks[r][t].k - 1) =>
                            status[r][u] = "done"

\* lookahead 1, five columns: the panel factorization of iteration 1 runs
\* while the trailing gemm of iteration 0 on columns 2 .. 4 is executing,
\* the lookahead gemm of column 1 done
C16_Witness ==
    /\ pc[0] = "taskwait"
    /\ args[0].lookahead = 1 /\ nt = MaxNt /\ mt = MaxMt
    /\ \E t, u, g \in Submitted(0) :
        /\ IsTask(0, t, "panel", 1) /\ status[0][t] = "running"
        /\ IsTask(0, u, "trailingGemm", 0) /\ status[0][u] = "running"
        /\ tasks[0][u].j = 2
        /\ IsTask(0, g, "lookaheadGemm", 0) /\ status[0][g] = "done"

---------------------------------------------------------------------------
(* The two drivers side by side.                                           *)

\* the tasks that release device holds: the Devices driver has them, the
\* generic driver does not
IsRelease(T) == T.kind \in {"releaseDiag", "releaseColumn"}

\* what a task computes and sends, and what it waits for: its step and
\* columns, token sets, kernel, operand tiles, broadcasts and tags; not its
\* target, batch queue or priority
Computation(T) ==
    [kind |-> T.kind, k |-> T.k, j |-> T.j, din |-> T.din, dout |-> T.dout,
     op |-> T.op, reads |-> T.reads, writes |-> T.writes, bcasts |-> T.bcasts]

NotRelease(T) == ~IsRelease(T)

\* the computational tasks of a task list, in order
Computational(prog) ==
    LET c == SelectSeq(prog, NotRelease)
    IN  [i \in 1 .. Len(c) |-> Computation(c[i])]

\* C17: target invariance.  For the same shape and lookahead the Devices
\* driver submits the computational tasks of the generic driver, in the
\* same order, with identical token dependency sets, operand tile ranges
\* and tags, and once its tasks are complete every tile has received the
\* operation sequence of the generic driver.
C17_TargetInvariance ==
    \A r \in Procs :
        /\ (pc[r] = "taskwait" /\ JustSubmitted(r)
                /\ args[r].target = "Devices") =>
              Computational(tasks[r]) =
                  Computational(GenericDriver("HostTask", mt, nt, args[r].ib,
                                              args[r].max_panel_threads,
                                              args[r].lookahead))
        /\ (Factored(r) /\ args[r].target = "Devices") =>
              \A x \in Tiles :
                  tileIsLocal(x, r) => log[r][x] = ExpectedOps(x)

\* a Devices call on MaxMt x MaxNt tiles with lookahead 1 has completed its
\* tasks, release tasks among them, and the last tile has its two gemm
\* updates and its trsm
C17_Witness ==
    /\ Factored(0)
    /\ args[0].target = "Devices" /\ args[0].lookahead = 1
    /\ mt = MaxMt /\ nt = MaxNt
    /\ \E t \in Submitted(0) : IsRelease(tasks[0][t])
    /\ Len(SelectSeq(tasks[0], NotRelease)) < Len(tasks[0])
    /\ Len(log[0][<<MaxMt - 1, MaxNt - 1>>]) = MaxMt

---------------------------------------------------------------------------
(* The column-release task of the Devices driver.  Its loop runs           *)
(* for (i = k+1; i < A_nt; ++i) over the rows of the panel column, with    *)
(* the number of block columns as the bound.                               *)

\* variant: the release without the guard if (A.tileIsLocal(i, k))
AddressedUnguarded(T, r) == T.writes

\* the tiles of process r that task T addresses
Addressed(T, r) == {x \in T.writes : tileIsLocal(x, r)}

\* C18: the device release covers the panel column.  In the Devices driver,
\* for every shape and every iteration k, the column-release task updates
\* the origin of and drops the holds on exactly the local panel-column
\* tiles A(i, k), k < i < Mt, and addresses no tile whose row index is
\* >= Mt or whose column index is >= Nt.
C18_ReleaseCoversColumn ==
    \A r \in Procs :
        pc[r] = "taskwait" =>
            \A t \in Submitted(r) :
                tasks[r][t].kind = "releaseColumn" =>
                    /\ Addressed(tasks[r][t], r) =
                           {x \in sub(tasks[r][t].k + 1, mt - 1,
                                      tasks[r][t].k, tasks[r][t].k) :
                               tileIsLocal(x, r)}
                    /\ \A x \in Addressed(tasks[r][t], r) :
                           x[1] < mt /\ x[2] < nt

\* a wide matrix, 1 x 2 tiles: the column-release task of iteration 0
\* addresses A(1, 0), a row the matrix does not have
C18_Witness ==
    /\ pc[0] = "taskwait"
    /\ mt = 1 /\ nt = 2
    /\ \E t \in Submitted(0) :
        /\ IsTask(0, t, "releaseColumn", 0)
        /\ <<1, 0>> \in Addressed(tasks[0][t], 0)

---------------------------------------------------------------------------
(* Delivery of the broadcasts.  The transport (tileBcast, listBcast,       *)
(* listBcastMT) matches a receive with a send of the same source process,  *)
(* destination process and tag; the broadcasts of one list proceed in any  *)
(* order.                                                                  *)

\* process r holds the tiles its completed broadcasts delivered: the master
\* thread has not yet cleared the workspace
HoldsReplicas(r) == pc[r] = "taskwait"

\* C19: broadcast delivery.  After a broadcast of tile (i, j) to a
\* destination view has completed on a process that owns a tile of the
\* view, the process holds a replica of (i, j) equal to the content of the
\* owner's tile, whatever the order in which the broadcasts of a list are
\* carried out; every message delivers the tile the receive names.
C19_BroadcastDelivers ==
    /\ \A m \in msgs : m.tile = m.into
    /\ \A r \in Procs :
        HoldsReplicas(r) =>
            \A t \in Submitted(r) :
                status[r][t] = "done" =>
                    \A b \in tasks[r][t].bcasts :
                        r \in Receivers(b) =>
                            /\ val[r][b.src] # NoTile
                            /\ val[r][b.src] = val[tileRank(b.src)][b.src]

\* two processes, one over the other: process 1 has completed the trailing
\* broadcast of iteration 0, a list of two tiles of process 0, and holds
\* both
C19_Witness ==
    /\ p = 2 /\ nt = 3
    /\ HoldsReplicas(1)
    /\ args[1].lookahead = 0
    /\ \E t \in Submitted(1) :
        /\ IsTask(1, t, "trailingBcast", 0)
        /\ status[1][t] = "done"
        /\ Cardinality(tasks[1][t].bcasts) = 2
    /\ \A x \in {<<0, 1>>, <<0, 2>>} :
        val[1][x] \in Scalars /\ val[1][x] = val[0][x]
    /\ Cardinality({m \in msgs : m.k = 0 /\ m.tag > mt}) = 2

---------------------------------------------------------------------------
(* Empty views.  In the last block row, k = A_mt-1, the view               *)
(* A.sub(k+1, A_mt-1, ...) has no tile; in the last block column,          *)
(* k = A_nt-1, the view A.sub(.., .., k+1, A_nt-1) has none.               *)

\* tile x is broadcast to a view that has a tile: the diagonal tile A(k, k)
\* goes down its column and along its row, a panel tile A(i, k) along its
\* row, a row tile A(k, j) down its column
HasDestination(x) ==
    CASE x[1] = x[2] -> x[1] < mt - 1 \/ x[2] < nt - 1
      [] x[1] > x[2] -> x[2] < nt - 1
      [] OTHER -> x[1] < mt - 1

\* broadcast b names a destination view without a tile
EmptyDestination(b) == b.dst \cap Tiles = {}

\* the trsm-right and the gemms of the last block row work on
\* A.sub(k+1, A_mt-1, ...), a view without a tile
OnEmptyView(T) ==
    T.kind \in {"trsmRight", "lookaheadGemm", "trailingGemm"} /\ T.k = mt - 1

\* task t of process r starts in this step
Starts(r, t) == status[r][t] = "pending" /\ status'[r][t] = "running"

\* C20: empty destination views are no-ops.  A broadcast whose destination
\* view is empty sends and awaits no message and does not keep its task
\* from completing; a trsm or gemm on an empty view changes no tile; and
\* the call returns, its last iteration complete, for square, tall and wide
\* matrices.
C20_EmptyViewsAreNoOps ==
    /\ [](/\ \A m \in msgs : HasDestination(m.tile)
          /\ \A r \in Procs : \A t \in Executing(r) :
                /\ \A s \in PendingSends(tasks[r][t], r) :
                       ~EmptyDestination(s[1])
                /\ \A b \in PendingRecvs(tasks[r][t], r) :
                       ~EmptyDestination(b))
    /\ [][\A r \in Procs : \A t \in Submitted(r) :
            (Starts(r, t) /\ OnEmptyView(tasks[r][t])) =>
                val' = val /\ log' = log]_vars
    /\ <>(AllReturned /\ AllDone)

\* a tall matrix, 3 x 2 tiles, on two processes: the call has returned; in
\* the last iteration the panel-row broadcast named two empty views and
\* the trsm-right a view of one tile, and no message of that iteration
\* carries a panel tile
C20_Witness ==
    /\ AllReturned /\ AllDone
    /\ mt = 3 /\ nt = 2
    /\ \A r \in Procs : \E t \in Submitted(r) :
        /\ IsTask(r, t, "panelBcast", 1)
        /\ Cardinality(tasks[r][t].bcasts) = 1
        /\ \A b \in tasks[r][t].bcasts : EmptyDestination(b)
    /\ \A m \in msgs : m.k = 1 => m.tile = <<1, 1>>
    /\ \E m \in msgs : m.k = 1

---------------------------------------------------------------------------
(* The two tag spaces of the list broadcasts.                              *)

\* the tags of the broadcasts of the tasks of one kind that process r has
\* submitted
TagsOf(r, kind) ==
    UNION {{b.tag : b \in tasks[r][t].bcasts}
           : t \in {u \in Submitted(r) : tasks[r][u].kind = kind}}

\* C21: trailing tags are disjoint from panel-row tags.  For every shape,
\* every lookahead and every pair of iterations, the tag j + Mt of a
\* trailing-column broadcast is not the tag i, k < i < Mt, of any panel-row
\* broadcast.
C21_TrailingTagsApart ==
    \A r \in Procs :
        pc[r] = "taskwait" =>
            /\ TagsOf(r, "trailingBcast") \cap TagsOf(r, "panelBcast") = {}
            /\ \A t \in Submitted(r) : \A b \in tasks[r][t].bcasts :
                /\ tasks[r][t].kind = "trailingBcast" =>
                       b.tag = b.src[2] + mt
                /\ tasks[r][t].kind = "panelBcast" =>
                       b.tag = b.src[1] /\ b.tag \in tasks[r][t].k + 1 .. mt - 1

\* MaxMt x MaxNt tiles, lookahead 0: iteration 0 broadcasts the panel tile
\* of row 2 and iteration 1 the trailing tile of column 2, with tags 2 and
\* 2 + Mt
C21_Witness ==
    /\ pc[0] = "taskwait"
    /\ mt = MaxMt /\ nt = MaxNt
    /\ args[0].lookahead = 0
    /\ \E t, u \in Submitted(0) :
        /\ IsTask(0, t, "panelBcast", 0)
        /\ IsTask(0, u, "trailingBcast", 1)
        /\ \E b \in tasks[0][t].bcasts, c \in tasks[0][u].bcasts :
            /\ b.src = <<2, 0>> /\ b.tag = 2
            /\ c.src = <<1, 2>> /\ c.tag = 2 + mt

---------------------------------------------------------------------------
(* The priority clauses.  priority(priority_one) is high priority; a task  *)
(* without a priority clause has the default priority 0.                   *)

HighPriorityKinds ==
    {"panel", "trsmRight", "panelBcast", "lookaheadTrsm", "lookaheadGemm"}

TrailingKinds == {"trailingTrsm", "trailingBcast", "trailingGemm"}

\* the kinds of the tasks process r has submitted
KindsOf(r) == {tasks[r][t].kind : t \in Submitted(r)}

\* C22: task priorities.  In every iteration the panel factor, trsm-right,
\* panel-row broadcast, lookahead trsm-left and lookahead gemm tasks are
\* submitted with high priority and the three trailing tasks with normal
\* priority, in the generic and in the Devices driver.
C22_Priorities ==
    \A r \in Procs :
        pc[r] = "taskwait" =>
            \A t \in Submitted(r) :
                /\ tasks[r][t].kind \in HighPriorityKinds =>
                       tasks[r][t].priority = 1
                /\ tasks[r][t].kind \in TrailingKinds =>
                       tasks[r][t].priority = 0

\* a Devices call has submitted tasks of all eight kinds, a lookahead gemm
\* with priority 1 and the trailing gemm of the same iteration with
\* priority 0 among them
C22_Witness ==
    /\ pc[0] = "taskwait"
    /\ args[0].target = "Devices"
    /\ HighPriorityKinds \cup TrailingKinds \subseteq KindsOf(0)
    /\ \E t, u \in Submitted(0) :
        /\ tasks[0][t].kind = "lookaheadGemm" /\ tasks[0][t].priority = 1
        /\ tasks[0][u].kind = "trailingGemm" /\ tasks[0][u].priority = 0
        /\ tasks[0][t].k = tasks[0][u].k

---------------------------------------------------------------------------
(* The dependency graph of one call.                                       *)

\* the tasks whose body calls tileBcast, listBcast or listBcastMT
BroadcastKinds == {"panel", "panelBcast", "lookaheadTrsm", "trailingBcast"}

\* C23: acyclic dependences, broadcasts as token writes.  Every task that
\* performs a broadcast holds at least one token in write (out or inout)
\* mode; every dependency edge goes from an earlier-submitted task to a
\* later-submitted one; the dependency graph of a call has no cycle.
C23_AcyclicDependences ==
    \A r \in Procs :
        JustSubmitted(r) =>
            \A t \in Submitted(r) :
                /\ (\/ tasks[r][t].kind \in BroadcastKinds
                    \/ tasks[r][t].bcasts # {}) => tasks[r][t].dout # {}
                /\ \A u \in waits[r][t] : u < t
                /\ t \notin Ancestors(r, t)

\* on two rows of processes the list of a 3 x 3 call has tasks of the four
\* broadcasting kinds, and the trailing broadcast of iteration 0 waits for
\* the panel-row broadcast of iteration 0 through mpi_bandwidth
C23_Witness ==
    /\ JustSubmitted(0)
    /\ p = 2 /\ mt = 3 /\ nt = 3
    /\ BroadcastKinds \subseteq KindsOf(0)
    /\ \E t, u \in Submitted(0) :
        /\ IsTask(0, t, "trailingBcast", 0)
        /\ IsTask(0, u, "panelBcast", 0)
        /\ u \in waits[0][t]
        /\ mpi_bandwidth \in tasks[0][t].dout \cap tasks[0][u].dout

---------------------------------------------------------------------------
(* The owner of a tile.                                                    *)

\* the processes that report tileIsLocal(i, j) for tile x = (i, j)
Owners(x) == {r \in Procs : tileIsLocal(x, r)}

\* process r sits in row r mod p and column r div p of the grid
GridRow(r) == r % p
GridCol(r) == r \div p

\* the processes whose release task t releases tile x
Releasers(t, x) ==
    {r \in Procs : t \in Submitted(r) /\ x \in Addressed(tasks[r][t], r)}

\* C24: ownership uniqueness.  For every process grid and every tile (i, j)
\* of the matrix exactly one process reports tileIsLocal(i, j), the process
\* (i mod P, j mod Q); so each release guarded by tileIsLocal in the
\* Devices driver is performed by exactly one process per tile.
C24_OneOwner ==
    /\ \A x \in Tiles :
        /\ Cardinality(Owners(x)) = 1
        /\ \A r \in Owners(x) :
            GridRow(r) = x[1] % p /\ GridCol(r) = x[2] % q
    /\ pc[0] = "taskwait" =>
        \A t \in Submitted(0) :
            IsRelease(tasks[0][t]) =>
                \A x \in tasks[0][t].writes \cap Tiles :
                    /\ Cardinality(Releasers(t, x)) = 1
                    /\ Releasers(t, x) = Owners(x)

\* a Devices call on a grid of 2 x 2 processes and 3 x 3 tiles: the
\* column-release task of iteration 0 releases A(1, 0) on process 1 and
\* A(2, 0) on process 0, and the four processes own different tiles
C24_Witness ==
    /\ pc[0] = "taskwait"
    /\ p = 2 /\ q = 2 /\ mt = 3 /\ nt = 3
    /\ args[0].target = "Devices"
    /\ {tileRank(x) : x \in Tiles} = Procs
    /\ \E t \in Submitted(0) :
        /\ IsTask(0, t, "releaseColumn", 0)
        /\ Releasers(t, <<1, 0>>) = {1}
        /\ Releasers(t, <<2, 0>>) = {0}

---------------------------------------------------------------------------
(* The call slate_pposv makes and what it reports.                         *)

\* slate_pposv has called its driver
InPposv == shim.fn = "slate_pposv" /\ shim.pc # "idle"

\* C25: the contract of slate_pposv.  It invokes the driver with exactly
\* the options Lookahead = 1 and Target = the configured target, and on
\* every normal return the diagnostic integer *info is 0.
C25_PposvContract ==
    InPposv =>
        /\ shim.driver[1].name = "posv"
        /\ {key \in OptionKeys : Has(shim.driver[1].opts, key)} =
               {"Lookahead", "Target"}
        /\ At(shim.driver[1].opts, "Lookahead") = 1
        /\ shim.driver[1].opts.Target = shim.target["slate_pposv"]
        /\ shim.pc = "returned" => shim.info = <<0>>

\* the second call of slate_pposv in a process configured for devices has
\* returned: the driver was called with the target of the first call, and
\* *info is 0
C25_Witness ==
    /\ InPposv /\ shim.pc = "returned"
    /\ shim.calls = 2
    /\ shim.target["slate_pposv"] = <<"Devices">>
    /\ shim.target["slate_planhe"] = << >>
    /\ shim.driver[1].opts.Target = <<"Devices">>
    /\ shim.info = <<0>>

---------------------------------------------------------------------------
(* The tile routine tpmqrt(side, op, l, V2, T, C1, C2) of                  *)
(* internal/Tile_tpmqrt.hh.  A tile is its numbers of rows and columns,    *)
(* [mb, nb].  tp is the call: its arguments, its position, and the         *)
(* arguments with which lapack::tpmqrt was called.  The asserts are        *)
(* active.                                                                 *)

TileShapes == [mb : 1 .. MaxTileDim, nb : 1 .. MaxTileDim]

\* int64_t k = V2.nb()
tpmqrt_k(c) == c.V2.nb

\* int64_t n = C2.nb()
tpmqrt_n(c) == c.C2.nb

\* int64_t m = C2.mb(); if ((n >= k) && (m > n)) m = min(C2.mb(), C2.nb())
tpmqrt_m(c) ==
    IF tpmqrt_n(c) >= tpmqrt_k(c) /\ c.C2.mb > tpmqrt_n(c)
    THEN Min(c.C2.mb, c.C2.nb)
    ELSE c.C2.mb

\* the asserts of the routine, all of which must hold for the call to go on
tpmqrt_asserts(c) ==
    /\ IF c.side = "Left"
       THEN /\ c.C1.mb >= tpmqrt_k(c)
            /\ c.C1.nb = tpmqrt_n(c)
            /\ Min(tpmqrt_m(c), tpmqrt_k(c)) >= c.l
       ELSE /\ c.C1.mb = tpmqrt_m(c)
            /\ c.C1.nb >= tpmqrt_k(c)
            /\ c.V2.mb = tpmqrt_n(c)
            /\ Min(tpmqrt_n(c), tpmqrt_k(c)) >= c.l
    /\ c.T.nb = tpmqrt_k(c)

\* variant: the kernel called with ib = T.mb()
tpmqrt_kernel_ib_T(c) ==
    [side |-> c.side, m |-> tpmqrt_m(c), n |-> tpmqrt_n(c),
     k |-> tpmqrt_k(c), l |-> c.l, ib |-> c.T.mb]

\* lapack::tpmqrt(side, op, m, n, k, l, ib, ...), ib = min(T.mb(), k)
tpmqrt_kernel(c) ==
    [side |-> c.side, m |-> tpmqrt_m(c), n |-> tpmqrt_n(c),
     k |-> tpmqrt_k(c), l |-> c.l, ib |-> Min(c.T.mb, tpmqrt_k(c))]

\* the calls of the model: either side, l from -1 to MaxTileDim + 1, tiles
\* of every shape, LAPACK with or without tpmqrt
TpmqrtCalls ==
    [pc : {"call"}, lapack_has_tpmqrt : BOOLEAN, side : {"Left", "Right"},
     l : (0 - 1) .. (MaxTileDim + 1),
     V2 : TileShapes, T : TileShapes, C1 : TileShapes, C2 : TileShapes,
     kernel : {<< >>}]

\* the routine up to the call of the kernel
Tpmqrt ==
    /\ tp.pc = "call"
    /\ tp' = IF ~tp.lapack_has_tpmqrt
             THEN [tp EXCEPT !.pc = "not_implemented"]
             ELSE IF ~tpmqrt_asserts(tp)
                  THEN [tp EXCEPT !.pc = "aborted"]
                  ELSE [tp EXCEPT !.pc = "kernel",
                                  !.kernel = <<tpmqrt_kernel(tp)>>]
    /\ UNCHANGED <<call, lu, num_blas_threads, mpi_initialized, shim>>

\* lapack::tpmqrt returns, and the routine with it
TpmqrtReturn ==
    /\ tp.pc = "kernel"
    /\ tp' = [tp EXCEPT !.pc = "returned"]
    /\ UNCHANGED <<call, lu, num_blas_threads, mpi_initialized, shim>>

NextTpmqrt ==
    \/ Tpmqrt
    \/ TpmqrtReturn

InitTpmqrt ==
    /\ p = 1 /\ q = 1
    /\ mt = 0 /\ nt = 0
    /\ opts \in {o \in OptionMaps : \A key \in OptionKeys : ~Has(o, key)}
    /\ A0 = InputMatrix(1, mt, nt)
    /\ omp_max_threads = MaxThreads
    /\ num_blas_threads = omp_max_threads
    /\ mpi_initialized = TRUE
    /\ tp \in TpmqrtCalls
    /\ Entry

SpecTpmqrt == InitTpmqrt /\ [][NextTpmqrt]_vars

\* the kernel has been called
KernelCalled == tp.pc \in {"kernel", "returned"}

\* C26: the precondition of tpmqrt on l.  A call is accepted only when
\* 0 <= l <= min(m, k) for side = Left and 0 <= l <= min(n, k) for side =
\* Right, with k = V2.nb(), m = C2.mb(), n = C2.nb(); a call with l outside
\* this range, l < 0 included, fails the check before the kernel is called.
C26_LInRange ==
    KernelCalled =>
        /\ 0 <= tp.l
        /\ tp.side = "Left" => tp.l <= Min(tp.C2.mb, tp.V2.nb)
        /\ tp.side = "Right" => tp.l <= Min(tp.C2.nb, tp.V2.nb)

\* the kernel has been called with l = -1 on tiles of one row and column
C26_Witness ==
    /\ tp.pc = "returned"
    /\ tp.l = 0 - 1
    /\ tp.kernel[1].l = 0 - 1
    /\ tp.C2 = [mb |-> 1, nb |-> 1] /\ tp.V2 = [mb |-> 1, nb |-> 1]

\* the shapes the documentation of tpmqrt gives, with 0 <= l
DocumentedShapes(c) ==
    /\ c.T.nb = c.V2.nb
    /\ 0 <= c.l
    /\ IF c.side = "Right"
       THEN /\ c.C1.mb = c.C2.mb /\ c.C1.nb >= c.V2.nb
            /\ c.V2.mb = c.C2.nb
            /\ c.l <= Min(c.C2.nb, c.V2.nb)
       ELSE /\ c.C1.mb >= c.V2.nb /\ c.C1.nb = c.C2.nb
            /\ c.l <= Min(c.C2.mb, c.V2.nb)

\* C27: the dimension contract of tpmqrt.  For side = Right every call with
\* C1 of m rows and at least k columns, C2 m-by-n, V2 n-by-k, T of k
\* columns and l <= min(n, k) passes every check and the kernel is called
\* with the row count m = C2.mb(); for side = Left every call with C1 of at
\* least k rows and n columns, C2 m-by-n, T of k columns and l <= min(m, k)
\* passes and the kernel is called with m = C2.mb().
C27_DimensionContract ==
    (tp.pc \notin {"none", "call"} /\ tp.lapack_has_tpmqrt
        /\ DocumentedShapes(tp)) =>
            /\ KernelCalled
            /\ tp.kernel[1].m = tp.C2.mb

\* side = Right, C1 and C2 of 2 rows and 1 column, V2 and T 1 x 1, l = 0:
\* the documented shapes, and the call is aborted by an assert
C27_Witness ==
    /\ tp.pc = "aborted"
    /\ tp.side = "Right" /\ tp.l = 0
    /\ tp.C1 = [mb |-> 2, nb |-> 1] /\ tp.C2 = [mb |-> 2, nb |-> 1]
    /\ tp.V2 = [mb |-> 1, nb |-> 1] /\ tp.T = [mb |-> 1, nb |-> 1]
    /\ DocumentedShapes(tp)
    /\ tpmqrt_m(tp) = 1

---------------------------------------------------------------------------
(* The columns of an iteration: those of the lookahead loop and those of   *)
(* the trailing block.                                                     *)

\* the tasks of the given kinds of iteration k that process r submitted
TasksOf(r, kinds, k) ==
    {t \in Submitted(r) : tasks[r][t].kind \in kinds /\ tasks[r][t].k = k}

\* the columns a trsm-left task solves: those of the view it writes
TrsmColumns(T) == {x[2] : x \in T.writes}

\* the columns a gemm task updates: those of the row A(k, ..) it reads
GemmColumns(T) == {x[2] : x \in {y \in T.reads : y[1] = T.k /\ y[2] > T.k}}

\* the columns of the tasks S of process r, by the operator of their kind
ColumnsOf(r, S) ==
    UNION {IF tasks[r][t].op = "gemm" THEN GemmColumns(tasks[r][t])
           ELSE TrsmColumns(tasks[r][t]) : t \in S}

\* C28: the column partition of an iteration.  For every k < min(Mt, Nt)
\* and every lookahead l the lookahead columns k+1 <= j < min(k+1+l, Nt)
\* and the trailing columns k+1+l <= j < Nt are disjoint and together are
\* k+1 .. Nt-1; the three trailing tasks are submitted iff k+1+l < Nt; each
\* column j > k is the target of exactly one trsm-left and exactly one gemm
\* of iteration k.
C28_ColumnPartition ==
    pc[0] = "taskwait" =>
        \A k \in 0 .. Min(mt, nt) - 1 :
            LET l == args[0].lookahead
                la == ColumnsOf(0, TasksOf(0, {"lookaheadTrsm"}, k))
                tr == ColumnsOf(0, TasksOf(0, {"trailingTrsm"}, k))
            IN  /\ la = {j \in k+1 .. nt-1 : j < Min(k+1+l, nt)}
                /\ tr = {j \in k+1 .. nt-1 : k+1+l <= j}
                /\ la \cap tr = {}
                /\ la \cup tr = k+1 .. nt-1
                /\ ColumnsOf(0, TasksOf(0, {"lookaheadGemm"}, k)) = la
                /\ ColumnsOf(0, TasksOf(0, {"trailingGemm"}, k)) = tr
                /\ \A kind \in TrailingKinds :
                    Cardinality(TasksOf(0, {kind}, k)) =
                        IF k+1+l < nt THEN 1 ELSE 0
                /\ \A j \in k+1 .. nt-1 :
                    /\ Cardinality(
                         {t \in TasksOf(0, {"lookaheadTrsm", "trailingTrsm"}, k)
                            : j \in TrsmColumns(tasks[0][t])}) = 1
                    /\ Cardinality(
                         {t \in TasksOf(0, {"lookaheadGemm", "trailingGemm"}, k)
                            : j \in GemmColumns(tasks[0][t])}) = 1

\* MaxMt x MaxNt tiles, lookahead 2: iteration 0 has the lookahead columns
\* 1, 2 and the trailing columns 3, 4; iteration 2 has lookahead columns
\* only and no trailing task
C28_Witness ==
    /\ pc[0] = "taskwait"
    /\ mt = MaxMt /\ nt = MaxNt
    /\ args[0].lookahead = 2
    /\ ColumnsOf(0, TasksOf(0, {"lookaheadGemm"}, 0)) = {1, 2}
    /\ ColumnsOf(0, TasksOf(0, {"trailingGemm"}, 0)) = {3, 4}
    /\ ColumnsOf(0, TasksOf(0, {"lookaheadTrsm"}, 2)) = {3, 4}
    /\ TasksOf(0, TrailingKinds, 2) = {}

---------------------------------------------------------------------------
(* The token mpi_bandwidth.                                                *)

\* the tasks of process r with depend(inout:mpi_bandwidth)
HoldsBandwidth(r) ==
    {t \in Submitted(r) : mpi_bandwidth \in tasks[r][t].dout}

ListBcastKinds == {"panelBcast", "trailingBcast"}

\* task t comes before task u in the order panel-row(0), trailing(0),
\* panel-row(1), trailing(1), ...
BcastOrder(T, U) ==
    \/ T.k < U.k
    \/ T.k = U.k /\ T.kind = "panelBcast" /\ U.kind = "trailingBcast"

\* C29: the bandwidth token serializes the list broadcasts.  Within one
\* process at most one task holding mpi_bandwidth executes at any time;
\* the holders are the panel-row and the trailing broadcasts, and they
\* execute in the order of their submission, panel-row(0), trailing(0),
\* panel-row(1), trailing(1), ...; the panel task and the lookahead trsm do
\* not take the token.
C29_BandwidthSerializes ==
    \A r \in Procs :
        pc[r] = "taskwait" =>
            /\ Cardinality(HoldsBandwidth(r) \cap Executing(r)) <= 1
            /\ \A t \in Submitted(r) :
                /\ t \in HoldsBandwidth(r) <=>
                       tasks[r][t].kind \in ListBcastKinds
                /\ mpi_bandwidth \notin tasks[r][t].din
            /\ \A t \in HoldsBandwidth(r), u \in HoldsBandwidth(r) :
                t < u =>
                    /\ BcastOrder(tasks[r][t], tasks[r][u])
                    /\ status[r][u] # "pending" => status[r][t] = "done"

\* on process 0 of two the panel-row broadcast of iteration 0 is sending
\* while the lookahead trsm of the same iteration, which holds no
\* bandwidth token, is executing
C29_Witness ==
    /\ p * q = 2
    /\ pc[0] = "taskwait"
    /\ \E t \in Executing(0), u \in Executing(0) :
        /\ IsTask(0, t, "panelBcast", 0)
        /\ t \in HoldsBandwidth(0)
        /\ PendingSends(tasks[0][t], 0) # {}
        /\ IsTask(0, u, "lookaheadTrsm", 0)
        /\ u \notin HoldsBandwidth(0)
        /\ tasks[0][u].bcasts # {}

---------------------------------------------------------------------------
(* The release tasks of the Devices driver and the tasks that read what    *)
(* they release.                                                           *)

\* the tasks that read A(k, k) as a triangular factor
DiagReaderKinds == {"trsmRight", "lookaheadTrsm", "trailingTrsm"}

\* the gemm tasks, which read the panel column k
GemmKinds == {"lookaheadGemm", "trailingGemm"}

\* task t of process r has started
Started(r, t) == status[r][t] # "pending"

\* every task of process r of the given kinds of iteration k is done
DoneAll(r, kinds, k) ==
    \A u \in Submitted(r) :
        (tasks[r][u].k = k /\ tasks[r][u].kind \in kinds) =>
            status[r][u] = "done"

\* C30: release happens after the last reference.  In the Devices driver
\* the diagonal-release task of iteration k starts only after the
\* trsm-right, every lookahead trsm-left and the trailing trsm-left of
\* iteration k have completed, the column-release task only after every
\* gemm of iteration k has completed, and no task submitted after a release
\* task reads a tile it released.
C30_ReleaseAfterLastReference ==
    \A r \in Procs :
        pc[r] = "taskwait" =>
            \A t \in Submitted(r) :
                (Started(r, t) /\ IsRelease(tasks[r][t])) =>
                    /\ tasks[r][t].kind = "releaseDiag" =>
                           DoneAll(r, DiagReaderKinds, tasks[r][t].k)
                    /\ tasks[r][t].kind = "releaseColumn" =>
                           DoneAll(r, GemmKinds, tasks[r][t].k)
                    /\ \A u \in Submitted(r) :
                        u > t => tasks[r][u].reads \cap tasks[r][t].writes = {}

\* a Devices call with lookahead 1 on MaxMt x MaxNt tiles: both release
\* tasks of iteration 0 have started, the column release still executing,
\* after the two gemms of the iteration; the panel of iteration 1 is done
C30_Witness ==
    /\ pc[0] = "taskwait"
    /\ args[0].target = "Devices" /\ args[0].lookahead = 1
    /\ mt = MaxMt /\ nt = MaxNt
    /\ \E t, u, v \in Submitted(0) :
        /\ IsTask(0, t, "releaseDiag", 0) /\ status[0][t] = "done"
        /\ IsTask(0, u, "releaseColumn", 0) /\ status[0][u] = "running"
        /\ IsTask(0, v, "panel", 1) /\ status[0][v] = "done"
    /\ Cardinality(TasksOf(0, GemmKinds, 0)) = 2
    /\ DoneAll(0, GemmKinds, 0)

---------------------------------------------------------------------------
(* The target of each kernel call of the generic driver.                   *)

\* the targets the generic driver is instantiated for
HostTargets == {"HostTask", "HostNest", "HostBatch"}

\* the tasks that call a kernel with a Target template argument
CallsKernel(T) == T.op \in {"getrf", "trsmRight", "trsmLeft", "gemm"}

\* C31: in the generic driver only the trailing gemm is dispatched on the
\* selected target; the panel factorization, the trsm-right, every
\* lookahead trsm-left and gemm and the trailing trsm-left run as HostTask
\* for every value of the target parameter.
C31_OnlyTrailingGemmOnTarget ==
    \A r \in Procs :
        (pc[r] = "taskwait" /\ args[r].target \in HostTargets) =>
            \A t \in Submitted(r) :
                CallsKernel(tasks[r][t]) =>
                    tasks[r][t].target =
                        IF tasks[r][t].kind = "trailingGemm"
                        THEN args[r].target ELSE "HostTask"

\* a HostBatch call with lookahead 0 on SweepTiles x SweepTiles tiles: the
\* trailing gemm is dispatched on HostBatch, the panel, the trsm-right and
\* the trailing trsm-left on HostTask
C31_Witness ==
    /\ pc[0] = "taskwait"
    /\ args[0].target = "HostBatch" /\ args[0].lookahead = 0
    /\ {"panel", "trsmRight", "trailingTrsm", "trailingGemm"}
           \subseteq KindsOf(0)
    /\ \E t, u \in Submitted(0) :
        /\ tasks[0][t].kind = "trailingGemm"
        /\ tasks[0][t].target = "HostBatch"
        /\ tasks[0][u].kind = "trailingTrsm"
        /\ tasks[0][u].target = "HostTask"

---------------------------------------------------------------------------
(* Replicas.  A process that owns a tile of the destination view of a      *)
(* broadcast holds a replica of the tile sent; the replica is stale as     *)
(* soon as the owner writes its tile again.                                *)

\* the tiles of process o whose broadcast has begun: the task sending them
\* has executed its kernel and is in, or past, its broadcast
Broadcast(o) ==
    {b.src : b \in UNION {tasks[o][t].bcasts :
                             t \in {u \in Submitted(o) :
                                       status[o][u] # "pending"}}}
        \cap {x \in Tiles : tileRank(x) = o}

\* the replicas process r holds
Replicas(r) == {x \in rcvd[r] : tileRank(x) # r}

\* every replica held equals the tile of its owner
ReplicasCurrent ==
    \A r \in Procs :
        HoldsReplicas(r) =>
            \A x \in Replicas(r) : val[r][x] = val[tileRank(x)][x]

\* a step leaves every tile whose broadcast has begun as it is on its owner:
\* no kernel is applied to it, its content stays
BroadcastTilesKept ==
    \A o \in Procs :
        pc[o] = "taskwait" =>
            \A x \in Broadcast(o) :
                val'[o][x] = val[o][x] /\ log'[o][x] = log[o][x]

\* C32: no replica is ever stale when read.  Once a tile has been broadcast
\* its owner never writes it again in the rest of the driver call, and every
\* replica a process holds has the owner's current content.
C32_NoStaleReplica == []ReplicasCurrent /\ [][BroadcastTilesKept]_vars

\* two processes side by side, lookahead 1: process 1 executes a gemm that
\* reads its replica of a panel tile A(i, 0) of process 0, while process 0
\* has gone on to iteration 1
C32_Witness ==
    /\ p = 1 /\ q = 2 /\ mt >= 2 /\ nt >= 2
    /\ HoldsReplicas(1) /\ pc[0] = "taskwait"
    /\ \E t \in Submitted(1) :
        /\ tasks[1][t].op = "gemm" /\ tasks[1][t].k = 0
        /\ status[1][t] = "running"
        /\ \E x \in Replicas(1) \cap tasks[1][t].reads :
            /\ x[2] = 0 /\ x[1] > 0
            /\ x \in Broadcast(0)
            /\ val[1][x] = val[0][x]
    /\ \E u \in Submitted(0) : tasks[0][u].k = 1 /\ status[0][u] # "pending"

---------------------------------------------------------------------------
(* The token arrays: std::vector< uint8_t > column_vector(A_nt) and        *)
(* diag_vector(A_nt).                                                      *)

\* the indices of an array of A_nt tokens
TokenIndices(A_nt) == 0 .. A_nt - 1

\* the elements of column[] and diag[] the depend clauses of task T name
ArrayTokens(T) == {tok \in T.din \cup T.dout : tok[1] \in {"column", "diag"}}

\* C33: token index bounds.  Every index used in a depend clause on
\* column[] or diag[] lies in 0 .. Nt-1, the size of the token arrays, for
\* every shape Mt x Nt and every lookahead >= 0; with Nt = 0 or Mt = 0 no
\* task is submitted.
C33_TokenIndexBounds ==
    \A r \in Procs :
        pc[r] = "taskwait" =>
            /\ \A t \in Submitted(r) :
                \A tok \in ArrayTokens(tasks[r][t]) :
                    tok[2] \in TokenIndices(nt)
            /\ (mt = 0 \/ nt = 0) => tasks[r] = << >>

\* a wide call, MaxMt x MaxNt with lookahead MaxLookahead: the trailing
\* tasks of iteration 1 name column[k+1+lookahead] = column[A_nt-1], the
\* last token, and a lookahead task names column[A_nt-2]
C33_Witness ==
    /\ pc[0] = "taskwait"
    /\ mt = MaxMt /\ nt = MaxNt /\ mt < nt
    /\ args[0].lookahead = MaxLookahead
    /\ \E t, u \in Submitted(0) :
        /\ IsTask(0, t, "trailingGemm", 1)
        /\ tasks[0][t].dout = {column(nt - 1)}
        /\ 1 + 1 + args[0].lookahead = nt - 1
        /\ IsTask(0, u, "lookaheadTrsm", 1)
        /\ column(nt - 2) \in ArrayTokens(tasks[0][u])

---------------------------------------------------------------------------
(* The batch arrays of the Devices driver: the last argument of the        *)
(* internal::trsm<Target::Devices> and internal::gemm<Target::Devices>     *)
(* calls.                                                                  *)

\* task T is a device kernel on a view with a tile: it uses the batch array
\* of its index
UsesBatchArray(T) ==
    T.target = "Devices" /\ T.queue # NoQueue /\ T.writes \cap Tiles # {}

\* the pairs of device-kernel tasks of process r executing at the same time
\* with the same batch-array index
BatchArrayShared(r) ==
    {<<t, u>> \in Submitted(r) \X Submitted(r) :
        /\ t < u
        /\ status[r][t] = "running" /\ status[r][u] = "running"
        /\ UsesBatchArray(tasks[r][t]) /\ UsesBatchArray(tasks[r][u])
        /\ tasks[r][t].queue = tasks[r][u].queue}

\* C34: batch-array exclusivity in the Devices driver.  No two device-kernel
\* tasks that execute at the same time use the same batch-array index, for
\* every lookahead >= 0, lookahead >= 2 included, where lookahead tasks of
\* iterations k and k+1 may overlap.
C34_BatchArrayExclusive ==
    \A r \in Procs :
        (pc[r] = "taskwait" /\ args[r].target = "Devices") =>
            BatchArrayShared(r) = {}

\* lookahead 2 on 2 x 4 tiles: the lookahead gemm of iteration 0 on column 2
\* and the lookahead trsm of iteration 1 on column 3 execute at the same
\* time, both with batch array 3
C34_Witness ==
    /\ pc[0] = "taskwait"
    /\ args[0].target = "Devices" /\ args[0].lookahead = 2
    /\ mt = 2 /\ nt = 4
    /\ \E t, u \in Submitted(0) :
        /\ IsTask(0, t, "lookaheadGemm", 0) /\ tasks[0][t].j = 2
        /\ IsTask(0, u, "lookaheadTrsm", 1) /\ tasks[0][u].j = 3
        /\ tasks[0][t].queue = 3 /\ tasks[0][u].queue = 3
        /\ <<t, u>> \in BatchArrayShared(0)

---------------------------------------------------------------------------
(* MPI in the LAPACK entry point slate_trmm.                               *)

\* the step is the entry of slate_trmm
EntersTrmm ==
    shim.pc = "idle" /\ shim'.pc = "driver" /\ shim'.fn = "slate_trmm"

\* MPI is up whenever slate::trmm runs, and the shims have called
\* MPI_Init_thread at most once, on an MPI that was not initialized
MpiInitializedOnce ==
    /\ shim.inits <= 1
    /\ shim.inits = 1 => mpi_initialized
    /\ (shim.pc = "driver" /\ shim.fn = "slate_trmm") => mpi_initialized

\* a step calls MPI_Init_thread exactly when it is the entry of slate_trmm
\* on an MPI that is not initialized, and no step finalizes MPI
MpiInitWhenNeeded ==
    /\ shim'.inits # shim.inits <=>
           (EntersTrmm /\ ~mpi_initialized)
    /\ shim'.inits # shim.inits =>
           shim'.inits = shim.inits + 1 /\ mpi_initialized'
    /\ mpi_initialized => mpi_initialized'

\* C35: MPI initialization by the LAPACK-style shim is idempotent.  slate_trmm
\* calls MPI_Init_thread if and only if MPI is not yet initialized, so over
\* any sequence of shim calls MPI is initialized at most once by the shim, it
\* is initialized whenever slate::trmm runs, and the shim never finalizes it.
C35_MpiInitIdempotent == []MpiInitializedOnce /\ [][MpiInitWhenNeeded]_vars

\* the second call of slate_trmm by a caller that had not initialized MPI:
\* the first call initialized it, the second runs slate::trmm without
\* calling MPI_Init_thread again
C35_Witness ==
    /\ shim.calls = 2 /\ shim.fn = "slate_trmm" /\ shim.pc = "driver"
    /\ shim.target["slate_pposv"] = << >>
    /\ shim.target["slate_planhe"] = << >>
    /\ shim.inits = 1
    /\ mpi_initialized

---------------------------------------------------------------------------
(* The number of batch arrays of the Devices driver.                       *)

\* A.allocateBatchArrays(batch_size_zero, (num_arrays_two + lookahead))
NumBatchArrays(lookahead) == 2 + lookahead

\* the batch-array indices the tasks of process r pass to a device kernel
BatchIndices(r) ==
    {tasks[r][t].queue : t \in {u \in Submitted(r) :
                                   tasks[r][u].queue # NoQueue}}

\* C36: batch-array index bounds in the Devices driver.  Every batch-array
\* index passed to a device kernel (0, 1, or j-k+1 with k < j <=
\* k+lookahead) is in 0 .. 2+lookahead-1, the number of batch arrays
\* allocated at entry.
C36_BatchIndexBounds ==
    \A r \in Procs :
        (pc[r] = "taskwait" /\ args[r].target = "Devices") =>
            /\ BatchIndices(r) \subseteq
                   0 .. NumBatchArrays(args[r].lookahead) - 1
            /\ \A t \in Submitted(r) :
                tasks[r][t].kind \in {"lookaheadTrsm", "lookaheadGemm"} =>
                    /\ tasks[r][t].queue = tasks[r][t].j - tasks[r][t].k + 1
                    /\ tasks[r][t].k < tasks[r][t].j
                    /\ tasks[r][t].j <= tasks[r][t].k + args[r].lookahead

\* a Devices call with lookahead MaxLookahead: the tasks use every batch
\* array, from 0 to the last one, index MaxLookahead + 1
C36_Witness ==
    /\ pc[0] = "taskwait"
    /\ args[0].target = "Devices" /\ args[0].lookahead = MaxLookahead
    /\ BatchIndices(0) = 0 .. MaxLookahead + 1
    /\ \E t \in Submitted(0) :
        /\ tasks[0][t].kind = "lookaheadGemm"
        /\ tasks[0][t].queue = NumBatchArrays(MaxLookahead) - 1

---------------------------------------------------------------------------
(* The inner block size of tpmqrt.                                         *)

\* the inner block size lapack::tpmqrt was called with
InnerBlock == tp.kernel[1].ib

\* C37: tpmqrt inner blocking.  The inner block size passed to the LAPACK
\* kernel is min(T.mb(), k) with k = V2.nb(): it is the smaller of the two,
\* it equals T.mb() whenever T.mb() <= k, and it never exceeds k.
C37_InnerBlocking ==
    KernelCalled =>
        /\ InnerBlock <= tp.T.mb /\ InnerBlock <= tp.V2.nb
        /\ InnerBlock \in {tp.T.mb, tp.V2.nb}
        /\ tp.T.mb <= tp.V2.nb => InnerBlock = tp.T.mb
        /\ tp.kernel[1].k = tp.V2.nb

\* the kernel has been called for a T of MaxTileDim rows and k = 1: the
\* inner block size is 1, not T.mb()
C37_Witness ==
    /\ tp.pc = "returned"
    /\ tp.T.mb = MaxTileDim /\ tp.V2.nb = 1 /\ tp.T.mb > tp.V2.nb
    /\ InnerBlock = 1
    /\ tp.l = 0

===========================================================================
